---- MODULE Spec2Model ----
(***************************************************************************)
(* Model of the technology-cost pipeline of message_ix_models.tools.costs: *)
(*   regional_differentiation.py  (mapping loader, WEO / Intratec ratios)  *)
(*   decay.py                     (reduction scenarios, decay projector)   *)
(* Tables (pandas.DataFrame) are bags of rows; a row is a record.          *)
(* Floating-point cells are exact rationals extended with NaN and +-inf.   *)
(***************************************************************************)
EXTENDS Integers, Sequences, FiniteSets, Bags, TLC

(***************************************************************************)
(* Numbers.  A float64 cell is modelled as                                 *)
(*   <<n, d>>  with d > 0, gcd(n, d) = 1   the rational n/d                *)
(*   <<0, 0>>                              NaN                             *)
(*   <<1, 0>>, <<-1, 0>>                   +inf, -inf                      *)
(*   <<an, ad, qn, qd, tn, td, bn, bd>>    a * q^(tn/td) + b, where the    *)
(*        power is irrational (q is no perfect td-th power)                *)
(***************************************************************************)
Abs(i) == IF i < 0 THEN -i ELSE i

RECURSIVE GCD(_, _)
GCD(a, b) == IF b = 0 THEN a ELSE GCD(b, a % b)

NaN == <<0, 0>>
PosInf == <<1, 0>>
NegInf == <<-1, 0>>

Sign(i) == IF i > 0 THEN 1 ELSE IF i < 0 THEN -1 ELSE 0

\* n/d as a float: x/0 is +-inf, 0/0 is NaN (numpy semantics)
Rat(n, d) ==
    IF d = 0 THEN <<Sign(n), 0>>
    ELSE LET g == GCD(Abs(n), Abs(d))
             s == IF d < 0 THEN -1 ELSE 1
         IN  <<(s * n) \div g, (s * d) \div g>>

Num(i) == <<i, 1>>
IsNaN(v) == v = NaN
IsRat(v) == Len(v) = 2 /\ v[2] > 0
IsInf(v) == v = PosInf \/ v = NegInf
IsIrr(v) == Len(v) = 8

FNeg(a) == <<-a[1], a[2]>>

FAdd(a, b) ==
    IF IsNaN(a) \/ IsNaN(b) THEN NaN
    ELSE IF IsInf(a) /\ IsInf(b) THEN (IF a = b THEN a ELSE NaN)
    ELSE IF IsInf(a) THEN a
    ELSE IF IsInf(b) THEN b
    ELSE Rat(a[1] * b[2] + b[1] * a[2], a[2] * b[2])

FSub(a, b) == FAdd(a, FNeg(b))

FMul(a, b) ==
    IF IsNaN(a) \/ IsNaN(b) THEN NaN
    ELSE IF IsInf(a) \/ IsInf(b)
         THEN (IF a[1] = 0 \/ b[1] = 0 THEN NaN ELSE <<Sign(a[1]) * Sign(b[1]), 0>>)
    ELSE Rat(a[1] * b[1], a[2] * b[2])

FDiv(a, b) ==
    IF IsNaN(a) \/ IsNaN(b) THEN NaN
    ELSE IF IsInf(a) THEN (IF IsInf(b) THEN NaN
                           ELSE IF b[1] < 0 THEN FNeg(a) ELSE a)
    ELSE IF IsInf(b) THEN Num(0)
    ELSE IF b[1] = 0 THEN <<Sign(a[1]), 0>>
    ELSE Rat(a[1] * b[2], a[2] * b[1])

\* a > b on floats; any comparison with NaN is False
FGt(a, b) ==
    IF IsNaN(a) \/ IsNaN(b) THEN FALSE
    ELSE IF a = b THEN FALSE
    ELSE IF a = PosInf \/ b = NegInf THEN TRUE
    ELSE IF a = NegInf \/ b = PosInf THEN FALSE
    ELSE a[1] * b[2] > b[1] * a[2]

RECURSIVE IntPow(_, _)
IntPow(b, e) == IF e = 0 THEN 1 ELSE b * IntPow(b, e - 1)

\* the k-th root of the natural n when n is a perfect k-th power, else -1
IntRoot(n, k) ==
    IF \E r \in 0..n : IntPow(r, k) = n
    THEN CHOOSE r \in 0..n : IntPow(r, k) = n
    ELSE -1

\* numpy.round on a float: to the nearest integer, ties to the even one
FRound(v) ==
    IF ~IsRat(v) THEN v
    ELSE LET n == v[1]
             d == v[2]
             fl == IF n >= 0 THEN n \div d ELSE -((-n + d - 1) \div d)
             twice == 2 * (n - fl * d)
         IN  IF twice < d THEN Num(fl)
             ELSE IF twice > d THEN Num(fl + 1)
             ELSE IF fl % 2 = 0 THEN Num(fl) ELSE Num(fl + 1)

(***************************************************************************)
(* Tables.  A DataFrame is a bag of rows (row order is not modelled).      *)
(* A missing string cell is NA; a missing float cell is NaN.               *)
(***************************************************************************)
NA == "nan"

\* the bag holding row t[2] with t[3] copies for every <<source, row, copies>> of S
RECURSIVE CountOf(_)
CountOf(S) ==
    IF S = {} THEN 0
    ELSE LET t == CHOOSE u \in S : TRUE IN t[3] + CountOf(S \ {t})

BagOfTagged(S) == [r \in {t[2] : t \in S} |-> CountOf({t \in S : t[2] = r})]

ReadCsv(rows) == SetToBag(rows)
Rows(T) == BagToSet(T)
Concat(A, B) == A (+) B
DropDuplicates(T) == SetToBag(BagToSet(T))
Query(T, P(_)) == [r \in {x \in DOMAIN T : P(x)} |-> T[r]]

\* DataFrame.assign / rename / drop / reindex: a row-wise rewrite, keeping copies
MapRows(T, F(_)) == BagOfTagged({<<x, F(x), T[x]>> : x \in DOMAIN T})

\* one input row becomes several (DataFrame.melt, cross merge on a constant key)
FlatMapRows(T, F(_)) ==
    BagOfTagged(UNION {{<<x, r, T[x]>> : r \in F(x)} : x \in DOMAIN T})

\* DataFrame.merge(how="inner"): every matching pair of rows yields one row
InnerMerge(A, B, On(_, _), Join(_, _)) ==
    BagOfTagged({<<p, Join(p[1], p[2]), A[p[1]] * B[p[2]]>> :
                    p \in {q \in (DOMAIN A) \X (DOMAIN B) : On(q[1], q[2])}})

\* DataFrame.merge(how="left"): unmatched left rows are kept, right cells missing
LeftMerge(A, B, On(_, _), Join(_, _), Fill(_)) ==
    Concat(InnerMerge(A, B, On, Join),
           MapRows(Query(A, LAMBDA a : ~\E b \in DOMAIN B : On(a, b)), Fill))

Column(T, F(_)) == {F(x) : x \in DOMAIN T}

(***************************************************************************)
(* State.  The data files and the configuration are the program's inputs;  *)
(* every other variable holds what one function of the pipeline returned.  *)
(***************************************************************************)
VARIABLES
    csv,               \* the CSV files under data/costs, as sets of rows
    config,            \* the Config object handed to the pipeline
    regional_diff_df,  \* the table handed to the decay projector
    all_rates,         \* result of get_cost_reduction_data
    all_scens,         \* result of get_technology_reduction_scenarios_data
    df_inv_ref,        \* result of project_ref_region_inv_costs_using_reduction_rates
    weo_xlsb,          \* the cells of the WEO cost tables, in 2021 USD
    intratec_xlsx,     \* the Intratec index row of the comparison sheet
    log,               \* technologies named by the "not projected" log message
    df_merged,         \* result of get_weo_data
    df_map,            \* result of adjust_technology_mapping
    df_weo,            \* result of get_weo_regional_differentiation
    df_intratec,       \* result of get_intratec_regional_differentiation
    all_tech,          \* result of apply_regional_differentiation
    region_map_cache,  \* entries of the lru_cache of get_weo_region_map, oldest first
    cache_info,        \* hits and misses counted by the lru_cache
    codelist_loads,    \* number of times each node codelist was loaded
    raw_map_materials, \* the mapping table a caller hands to subset_materials_map
    sub_map,           \* result of that call of subset_materials_map
    source,            \* argument source of SHAPE(source, source_kw)
    source_kw,         \* argument source_kw: the keyword arguments still in the dict
    shape_files,       \* where the requested SHAPE data file exists
    path_fallback_calls, \* the file names handed to path_fallback
    shape,             \* the constructed SHAPE source, or the error raised
    context,           \* the Context instance: its keys and the objects they hold
    scenario_info,     \* context.scenario_info, from the --url option
    set_yaml,          \* the content of the private data file material/set.yaml
    material_loads,    \* number of calls of load_private_data
    material_calls,    \* number of calls of read_config
    material_spec,     \* what the last call of get_spec returned
    platform,          \* the calls made on scenarios, in order
    rep,               \* the Reporter: its graph, key to the keys it depends on, and filters
    has_solution,      \* what rep.graph["scenario"].has_solution() returns
    plot_failures,     \* the plots whose task cannot be added to rep
    report_filter,     \* context["transport config"]["report"]["filter"]
    callback_result,   \* how callback(rep) ended
    weo_region_map     \* what the last direct call of get_weo_region_map returned

\* what a call left behind: not yet called, a returned table, or a raised error
NotCalled == [status |-> "none", value |-> EmptyBag]
Returned(T) == [status |-> "ok", value |-> T]
Raised(e) == [status |-> e, value |-> EmptyBag]

Scenarios == {"SSP1", "SSP2", "SSP3", "SSP4", "SSP5", "LED"}

(***************************************************************************)
(* regional_differentiation.py: the technology mapping                     *)
(***************************************************************************)
get_raw_technology_mapping(module) == ReadCsv(csv.tech_map[module])

subset_materials_map(raw_map) ==
    MapRows(Query(raw_map, LAMBDA x : x.reg_diff_source # NA
                                      \/ ~IsNaN(x.base_year_reference_region_cost)),
            LAMBDA x : [x EXCEPT !.base_year_reference_region_cost = FRound(@)])

\* mutation: the rounded cost column is assigned to the argument itself
raw_map_after_subset_in_place(raw) ==
    MapRows(raw, LAMBDA x : [x EXCEPT !.base_year_reference_region_cost = FRound(@)])

\* the rows of the argument after the call: query, rename, assign and drop each
\* return a new frame
raw_map_after_subset(raw) == raw

(***************************************************************************)
(* regional_differentiation.py: the WEO and Intratec readers               *)
(***************************************************************************)
\* the node codelists: model node id -> value of its iea-weo-region annotation
NodeCodelist(regions) ==
    CASE regions = "R11" ->
            [n \in {"R11_NAM", "R11_WEU", "R11_CPA"} |->
                CASE n = "R11_NAM" -> "United States"
                  [] n = "R11_WEU" -> "European Union"
                  [] OTHER -> "China"]
      [] regions = "R12" ->
            [n \in {"R12_NAM", "R12_WEU", "R12_CHN", "R12_RCPA"} |->
                CASE n = "R12_NAM" -> "United States"
                  [] n = "R12_WEU" -> "European Union"
                  [] OTHER -> "China"]
      [] OTHER ->
            [n \in {"R20_NAM", "R20_WEU", "R20_CHN"} |->
                CASE n = "R20_NAM" -> "United States"
                  [] n = "R20_WEU" -> "European Union"
                  [] OTHER -> "China"]

get_weo_region_map(regions) == NodeCodelist(regions)

\* functools.lru_cache with its default maxsize
LruMaxSize == 128

\* mutation: a cache that never finds its entries
lru_cache_hit_never(cache, regions) == FALSE

lru_cache_hit(cache, regions) == \E i \in DOMAIN cache : cache[i].key = regions

lru_cache_result(cache, regions) ==
    IF lru_cache_hit(cache, regions)
    THEN cache[CHOOSE i \in DOMAIN cache : cache[i].key = regions].result
    ELSE get_weo_region_map(regions)

\* the entries after a call: the entry used is the most recent one, and the
\* least recently used entry is dropped when the cache is full
lru_cache_after(cache, regions) ==
    LET others == SelectSeq(cache, LAMBDA e : e.key # regions)
        entry == [key |-> regions, result |-> lru_cache_result(cache, regions)]
    IN  IF lru_cache_hit(cache, regions) THEN Append(others, entry)
        ELSE IF Len(cache) >= LruMaxSize THEN Append(Tail(cache), entry)
        ELSE Append(cache, entry)

\* one call of the cached get_weo_region_map: the codelist is loaded on a miss
CallGetWeoRegionMap(regions) ==
    /\ region_map_cache' = lru_cache_after(region_map_cache, regions)
    /\ cache_info' = IF lru_cache_hit(region_map_cache, regions)
                     THEN [cache_info EXCEPT !.hits = @ + 1]
                     ELSE [cache_info EXCEPT !.misses = @ + 1]
    /\ codelist_loads' = IF lru_cache_hit(region_map_cache, regions)
                         THEN codelist_loads
                         ELSE [codelist_loads EXCEPT ![regions] = @ + 1]

\* str.upper on the region and node codes that occur
Upper(s) ==
    CASE s = "r11_nam" -> "R11_NAM"
      [] s = "r11_weu" -> "R11_WEU"
      [] s = "R12_rcpa" -> "R12_RCPA"
      [] s = "r12_chn" -> "R12_CHN"
      [] s = "r20_nam" -> "R20_NAM"
      [] OTHER -> s

\* the year columns named by set_axis, in column order, and int() of each
YearColumns == <<"2021", "2030", "2050">>
IntOfYear(y) == CASE y = "2021" -> 2021 [] y = "2030" -> 2030 [] OTHER -> 2050

\* constants of config.py
BASE_YEAR == 2021
CONVERSION_2021_TO_2005_USD == Rat(18, 25)

\* the values of a set of <<row, copy>> items, in increasing order
RECURSIVE SortedValues(_)
SortedValues(E) ==
    IF E = {} THEN <<>>
    ELSE LET m == CHOOSE e \in E : \A f \in E : ~FGt(e[1].value, f[1].value)
         IN  <<m[1].value>> \o SortedValues(E \ {m})

\* mutation: the lower of the two middle values of an even number of cells
Median_lower_middle(T) ==
    LET E == UNION {{<<x, k>> : k \in 1..T[x]} : x \in {y \in DOMAIN T : ~IsNaN(y.value)}}
        s == SortedValues(E)
    IN  IF Len(s) = 0 THEN NaN ELSE s[(Len(s) + 1) \div 2]

\* Series.median(): NaN cells are skipped; an empty group has median NaN
Median(T) ==
    LET E == UNION {{<<x, k>> : k \in 1..T[x]} : x \in {y \in DOMAIN T : ~IsNaN(y.value)}}
        s == SortedValues(E)
        n == Len(s)
    IN  IF n = 0 THEN NaN
        ELSE IF n % 2 = 1 THEN s[(n + 1) \div 2]
        ELSE FDiv(FAdd(s[n \div 2], s[(n \div 2) + 1]), Num(2))

\* a spreadsheet cell holds a number or a text such as <<"n.a.">>
IsText(v) == Len(v) = 1

\* the sheets in long format: "n.a." becomes NaN, values converted to 2005 USD
all_cost_df(xlsb) ==
    MapRows(SetToBag(xlsb),
            LAMBDA x : [cost_type |-> x.cost_type, weo_technology |-> x.weo_technology,
                        weo_region |-> x.weo_region, year |-> x.year,
                        units |-> "usd_per_kw",
                        value |-> FMul(IF IsText(x.value) THEN NaN ELSE x.value,
                                       CONVERSION_2021_TO_2005_USD)])

df_median(all) ==
    SetToBag({[weo_technology |-> k[1], cost_type |-> k[2],
               median_value |-> Median(Query(all, LAMBDA x :
                   x.weo_technology = k[1] /\ x.cost_type = k[2]))] :
              k \in Column(all, LAMBDA x : <<x.weo_technology, x.cost_type>>)})

weo_data(xlsb) ==
    LET all == all_cost_df(xlsb)
    IN
    LeftMerge(all, df_median(all),
              LAMBDA a, m : a.weo_technology = m.weo_technology /\ a.cost_type = m.cost_type,
              LAMBDA a, m : [a EXCEPT !.value = IF IsNaN(@) THEN m.median_value ELSE @],
              LAMBDA a : a)

\* get_weo_data reads the workbook of the package data
get_weo_data == weo_data(weo_xlsb)

\* rows of the comparison sheet whose type is "Intratec index", in long format
get_intratec_data ==
    MapRows(Query(SetToBag(intratec_xlsx),
                  LAMBDA x : x.type # NA /\ x.type = "Intratec index"),
            LAMBDA x : [intratec_region |-> x.region, intratec_index |-> x.value,
                        intratec_tech |-> "all"])

(***************************************************************************)
(* regional_differentiation.py: mapping adjustment and cost ratios         *)
(***************************************************************************)
Map5(t, src, rdt, cost, fix) ==
    [message_technology |-> t, reg_diff_source |-> src, reg_diff_technology |-> rdt,
     base_year_reference_region_cost |-> cost, fix_ratio |-> fix]

\* every energy technology, with the cost of its materials namesake if that is given
materials_replace(raw_map_energy, sub_map_materials) ==
    LeftMerge(raw_map_energy,
              Query(sub_map_materials, LAMBDA x : x.message_technology
                        \in Column(raw_map_energy, LAMBDA e : e.message_technology)),
              LAMBDA e, m : m.message_technology = e.message_technology,
              LAMBDA e, m : Map5(e.message_technology, e.reg_diff_source,
                                 e.reg_diff_technology,
                                 IF ~IsNaN(m.base_year_reference_region_cost)
                                 THEN m.base_year_reference_region_cost
                                 ELSE e.base_year_reference_region_cost,
                                 NaN),
              LAMBDA e : Map5(e.message_technology, e.reg_diff_source,
                              e.reg_diff_technology, e.base_year_reference_region_cost,
                              NaN))

\* materials technologies mapped to an energy technology take over its source
materials_map_energy(raw_map_energy, sub_map_materials) ==
    LeftMerge(Query(sub_map_materials, LAMBDA x : x.reg_diff_source = "energy"),
              raw_map_energy,
              LAMBDA m, e : m.reg_diff_technology = e.message_technology,
              LAMBDA m, e : Map5(m.message_technology, e.reg_diff_source,
                                 e.reg_diff_technology,
                                 IF IsNaN(m.base_year_reference_region_cost)
                                 THEN e.base_year_reference_region_cost
                                 ELSE m.base_year_reference_region_cost,
                                 NaN),
              LAMBDA m : Map5(m.message_technology, NA, NA,
                              m.base_year_reference_region_cost, NaN))

materials_map_intratec(sub_map_materials) ==
    MapRows(Query(sub_map_materials,
                  LAMBDA x : x.reg_diff_source = "intratec"
                             /\ ~IsNaN(x.base_year_reference_region_cost)),
            LAMBDA x : [x EXCEPT !.reg_diff_technology = "all"])

materials_map_noregdiff(sub_map_materials) ==
    Query(sub_map_materials,
          LAMBDA x : x.reg_diff_source = NA /\ ~IsNaN(x.base_year_reference_region_cost))

materials_all ==
    LET raw_map_energy == get_raw_technology_mapping("energy")
        sub_map_materials == subset_materials_map(get_raw_technology_mapping("materials"))
    IN  DropDuplicates(
            Concat(Concat(materials_replace(raw_map_energy, sub_map_materials),
                          materials_map_energy(raw_map_energy, sub_map_materials)),
                   Concat(materials_map_intratec(sub_map_materials),
                          materials_map_noregdiff(sub_map_materials))))

\* mutation: the technologies that subset_materials_map removed
missing_tech_of_subset ==
    LET kept == Column(subset_materials_map(get_raw_technology_mapping("materials")),
                       LAMBDA x : x.message_technology)
    IN  Column(Query(get_raw_technology_mapping("materials"),
                     LAMBDA x : x.message_technology \notin kept),
               LAMBDA x : x.message_technology)

\* technologies of the raw materials mapping that the adjusted mapping lacks
missing_tech ==
    LET kept == Column(materials_all, LAMBDA x : x.message_technology)
    IN  Column(Query(get_raw_technology_mapping("materials"),
                     LAMBDA x : x.message_technology \notin kept),
               LAMBDA x : x.message_technology)

adjust_technology_mapping(module) ==
    IF module = "energy" THEN get_raw_technology_mapping("energy") ELSE materials_all

\* what adjust_technology_mapping logs
adjust_technology_mapping_log(module) ==
    IF module = "energy" THEN {}
    ELSE {[msg |-> "not projected due to insufficient data", names |-> missing_tech]}

\* the first year column whose distance to BASE_YEAR is minimal
year_nearest_base(xlsb) ==
    LET Dist(i) == Abs(IntOfYear(YearColumns[i]) - BASE_YEAR)
        l_years == {i \in DOMAIN YearColumns :
                        \E x \in xlsb : x.year = YearColumns[i]}
    IN  YearColumns[CHOOSE i \in l_years :
                        \A j \in l_years : Dist(i) < Dist(j) \/ (Dist(i) = Dist(j) /\ i <= j)]

\* WEO rows of the selected year, once for every model node of their WEO region
df_sel_weo(df, year, node) ==
    LET region_map == get_weo_region_map(node)
    IN  FlatMapRows(Query(df, LAMBDA x : x.year = year),
                    LAMBDA x : {[cost_type |-> x.cost_type,
                                 weo_technology |-> x.weo_technology,
                                 weo_region |-> x.weo_region, region |-> n,
                                 year |-> x.year, weo_cost |-> x.value] :
                                n \in {m \in DOMAIN region_map :
                                          region_map[m] = x.weo_region}})

\* mutation: the ratio is taken against the cheapest region, not the reference region
weo_ratio_base_cheapest(sel, ref_region) ==
    Query(sel, LAMBDA x : x.cost_type = "inv_cost"
                          /\ \A y \in DOMAIN sel :
                                (y.cost_type = "inv_cost"
                                 /\ y.weo_technology = x.weo_technology)
                                    => ~FGt(x.weo_cost, y.weo_cost))

\* the investment-cost rows of the reference region
weo_ratio_base(sel, ref_region) ==
    Query(sel, LAMBDA x : x.region = ref_region /\ x.cost_type = "inv_cost")

weo_reg_ratios(sel, ref_region) ==
    InnerMerge(weo_ratio_base(sel, ref_region),
               Query(sel, LAMBDA x : x.cost_type = "inv_cost"),
               LAMBDA a, b : a.weo_technology = b.weo_technology /\ a.year = b.year,
               LAMBDA a, b : [weo_technology |-> b.weo_technology, region |-> b.region,
                              weo_ref_region_cost |-> a.weo_cost,
                              reg_cost_ratio |-> FDiv(b.weo_cost, a.weo_cost)])

\* mutation: investment and fixed costs are paired on the technology alone
weo_fom_inv_joined_on_technology(sel, year) ==
    InnerMerge(Query(sel, LAMBDA x : x.cost_type = "inv_cost" /\ x.year = year),
               Query(sel, LAMBDA x : x.cost_type = "fix_cost" /\ x.year = year),
               LAMBDA a, b : a.weo_technology = b.weo_technology,
               LAMBDA a, b : [weo_technology |-> a.weo_technology, region |-> a.region,
                              weo_fix_ratio |-> FDiv(b.weo_cost, a.weo_cost)])

\* fixed O&M cost relative to investment cost, per technology and region
weo_fom_inv(sel, year) ==
    InnerMerge(Query(sel, LAMBDA x : x.cost_type = "inv_cost" /\ x.year = year),
               Query(sel, LAMBDA x : x.cost_type = "fix_cost" /\ x.year = year),
               LAMBDA a, b : a.weo_technology = b.weo_technology
                             /\ a.weo_region = b.weo_region /\ a.region = b.region,
               LAMBDA a, b : [weo_technology |-> a.weo_technology, region |-> a.region,
                              weo_fix_ratio |-> FDiv(b.weo_cost, a.weo_cost)])

\* an error whose message lists names
RaisedNaming(e, names) == [status |-> e, value |-> SetToBag(names)]

weo_regional_differentiation(xlsb, node, ref_region) ==
    LET year == year_nearest_base(xlsb)
        sel == df_sel_weo(weo_data(xlsb), year, node)
        ref == Upper(ref_region)
        regions == Column(sel, LAMBDA x : x.region)
    IN  IF ref \notin regions THEN RaisedNaming("ValueError", regions)
        ELSE Returned(InnerMerge(weo_reg_ratios(sel, ref), weo_fom_inv(sel, year),
                 LAMBDA a, b : a.weo_technology = b.weo_technology /\ a.region = b.region,
                 LAMBDA a, b : [weo_technology |-> a.weo_technology, region |-> a.region,
                                weo_ref_region_cost |-> a.weo_ref_region_cost,
                                reg_cost_ratio |-> a.reg_cost_ratio,
                                weo_fix_ratio |-> b.weo_fix_ratio]))

\* the function reads the workbook through get_weo_data
sel_year == year_nearest_base(weo_xlsb)
get_weo_regional_differentiation(node, ref_region) ==
    weo_regional_differentiation(weo_xlsb, node, ref_region)

\* Intratec regions renamed to model regions; no table for another classification
df_intratec_map(node) ==
    LET df == get_intratec_data
        Named(x, region) ==
            [intratec_region |-> x.intratec_region, intratec_index |-> x.intratec_index,
             intratec_tech |-> x.intratec_tech, region |-> region]
    IN  IF Upper(node) = "R11"
        THEN Query(MapRows(df, LAMBDA x :
                       Named(x, LET r == "R11_" \o x.intratec_region
                                IN  CASE r = "R11_CHN" -> "R11_CPA"
                                      [] r = "R11_RCPA" -> NA
                                      [] OTHER -> r)),
                   LAMBDA x : x.region # NA /\ ~IsNaN(x.intratec_index))
        ELSE MapRows(df, LAMBDA x : Named(x, "R12_" \o x.intratec_region))

get_intratec_regional_differentiation(node, ref_region) ==
    IF Upper(node) \notin {"R11", "R12"} THEN Raised("UnboundLocalError")
    ELSE LET map == df_intratec_map(node)
             ref == Upper(ref_region)
             regions == Column(map, LAMBDA x : x.region)
         IN  IF ref \notin regions THEN RaisedNaming("ValueError", regions)
             ELSE Returned(InnerMerge(
                      Query(map, LAMBDA x : x.region = ref), map,
                      LAMBDA a, b : a.intratec_tech = b.intratec_tech,
                      LAMBDA a, b : [intratec_tech |-> b.intratec_tech,
                                     region |-> b.region,
                                     intratec_ref_region_cost |-> a.intratec_index,
                                     reg_cost_ratio |-> FDiv(b.intratec_index,
                                                             a.intratec_index)]))

Tech7(m, region, cost, ratio, fix) ==
    [message_technology |-> m.message_technology, reg_diff_source |-> m.reg_diff_source,
     reg_diff_technology |-> m.reg_diff_technology, region |-> region,
     base_year_reference_region_cost |-> cost, reg_cost_ratio |-> ratio,
     fix_ratio |-> fix]

filt_weo(map, weo) ==
    LeftMerge(Query(map, LAMBDA x : x.reg_diff_source = "energy"
                                    \/ x.reg_diff_source = "weo"),
              weo,
              LAMBDA m, w : m.reg_diff_technology = w.weo_technology,
              LAMBDA m, w : Tech7(m, w.region,
                                  IF IsNaN(m.base_year_reference_region_cost)
                                  THEN w.weo_ref_region_cost
                                  ELSE m.base_year_reference_region_cost,
                                  w.reg_cost_ratio,
                                  IF IsNaN(m.fix_ratio) THEN w.weo_fix_ratio
                                  ELSE m.fix_ratio),
              LAMBDA m : Tech7(m, NA, m.base_year_reference_region_cost, NaN,
                               m.fix_ratio))

filt_intratec(map, intratec) ==
    LeftMerge(Query(map, LAMBDA x : x.reg_diff_source = "intratec"),
              intratec,
              LAMBDA m, i : m.reg_diff_technology = i.intratec_tech,
              LAMBDA m, i : Tech7(m, i.region,
                                  IF IsNaN(m.base_year_reference_region_cost)
                                  THEN i.intratec_ref_region_cost
                                  ELSE m.base_year_reference_region_cost,
                                  i.reg_cost_ratio,
                                  IF IsNaN(m.fix_ratio) THEN Num(0) ELSE m.fix_ratio),
              LAMBDA m : Tech7(m, NA, m.base_year_reference_region_cost, NaN,
                               IF IsNaN(m.fix_ratio) THEN Num(0) ELSE m.fix_ratio))

\* unsourced technologies get the regions found among the Intratec-sourced rows
filt_none(map, un_reg) ==
    FlatMapRows(Query(map, LAMBDA x : x.reg_diff_source = NA),
                LAMBDA m : LET fix == IF IsNaN(m.fix_ratio) THEN Num(0) ELSE m.fix_ratio
                           IN  IF un_reg = {}
                               THEN {Tech7(m, NA, m.base_year_reference_region_cost,
                                           NaN, fix)}
                               ELSE {Tech7(m, r, m.base_year_reference_region_cost,
                                           Num(1), fix) : r \in un_reg})

apply_regional_differentiation(cfg) ==
    LET map == adjust_technology_mapping(cfg.module)
        weo == get_weo_regional_differentiation(cfg.node, cfg.ref_region)
        intratec == get_intratec_regional_differentiation(cfg.node, cfg.ref_region)
    IN  IF weo.status # "ok" THEN weo
        ELSE IF intratec.status # "ok" THEN intratec
        ELSE LET fi == filt_intratec(map, intratec.value)
                 un_reg == Column(fi, LAMBDA x : x.region)
             IN  Returned(MapRows(
                     Concat(Concat(filt_weo(map, weo.value), fi), filt_none(map, un_reg)),
                     LAMBDA x : [message_technology |-> x.message_technology,
                                 reg_diff_source |-> x.reg_diff_source,
                                 reg_diff_technology |-> x.reg_diff_technology,
                                 region |-> x.region,
                                 base_year_reference_region_cost |->
                                     x.base_year_reference_region_cost,
                                 reg_cost_ratio |-> x.reg_cost_ratio,
                                 fix_ratio |-> x.fix_ratio,
                                 reg_cost_base_year |->
                                     FMul(x.base_year_reference_region_cost,
                                          x.reg_cost_ratio)]))

\* what get_weo_regional_differentiation logs
get_weo_regional_differentiation_log == {[msg |-> "using year", names |-> {sel_year}]}

\* decay.py imports the subsetting function under this name
subset_module_map(raw_map) == subset_materials_map(raw_map)

(***************************************************************************)
(* decay.py                                                                *)
(***************************************************************************)
\* the energy mapping, with the module's technologies replacing their namesakes
merged_tech_map(module) ==
    LET energy_map == get_raw_technology_mapping("energy")
    IN  IF module = "energy" THEN energy_map
        ELSE LET module_sub == subset_module_map(get_raw_technology_mapping(module))
                 names == Column(module_sub, LAMBDA x : x.message_technology)
             IN  Concat(Query(energy_map, LAMBDA x : x.message_technology \notin names),
                        module_sub)

Rate3(x) == [message_technology |-> x.message_technology,
             reduction_rate |-> x.reduction_rate,
             cost_reduction |-> x.cost_reduction]

\* cost_reduction.csv melted to (technology, reduction_rate, cost_reduction)
energy_rates ==
    LET melted == FlatMapRows(ReadCsv(csv.cost_reduction), LAMBDA x :
                    {[message_technology |-> x.message_technology,
                      technology_type |-> x.technology_type,
                      reduction_rate |-> c,
                      cost_reduction |-> IF IsNaN(x.rates[c]) THEN Num(0) ELSE x.rates[c]]
                     : c \in DOMAIN x.rates})
    IN  MapRows(DropDuplicates(melted), Rate3)

module_rates_energy(tech_map) ==
    LET left == MapRows(Query(tech_map, LAMBDA x : x.reg_diff_source = "energy"),
                        LAMBDA x : [message_technology |-> x.message_technology,
                                    reg_diff_technology |-> x.reg_diff_technology,
                                    fix_ratio |-> x.fix_ratio])
        merged == InnerMerge(left, energy_rates,
                    LAMBDA a, b : a.reg_diff_technology = b.message_technology,
                    LAMBDA a, b : [message_technology |-> a.message_technology,
                                   fix_ratio |-> a.fix_ratio,
                                   reduction_rate |-> b.reduction_rate,
                                   cost_reduction |-> b.cost_reduction])
    IN  MapRows(DropDuplicates(merged), Rate3)

\* mutation: "none" for every technology that cost_reduction.csv does not list
module_rates_noreduction_unlisted(tech_map) ==
    LET have == Column(energy_rates, LAMBDA x : x.message_technology)
    IN  MapRows(Query(tech_map, LAMBDA x : x.message_technology \notin have),
                LAMBDA x : [message_technology |-> x.message_technology,
                            reduction_rate |-> "none",
                            cost_reduction |-> Num(0)])

module_rates_noreduction(tech_map) ==
    LET df_reduction_techs == DropDuplicates(Concat(energy_rates, module_rates_energy(tech_map)))
        have == Column(df_reduction_techs, LAMBDA x : x.message_technology)
    IN  MapRows(Query(tech_map, LAMBDA x : x.message_technology \notin have),
                LAMBDA x : [message_technology |-> x.message_technology,
                            reduction_rate |-> "none",
                            cost_reduction |-> Num(0)])

get_cost_reduction_data(module) ==
    LET tech_map == merged_tech_map(module)
    IN  Concat(Concat(energy_rates, module_rates_energy(tech_map)),
               module_rates_noreduction(tech_map))

\* first-year table: the energy file, and for another module its file appended
df_first_year(module) ==
    LET energy == ReadCsv(csv.first_year["energy"])
    IN  IF module = "energy" THEN energy
        ELSE DropDuplicates(Concat(energy, ReadCsv(csv.first_year[module])))

\* the value of the first assign alone: only a missing first year is replaced
first_technology_year_where_isnull(orig, first_year) ==
    IF IsNaN(orig) THEN Num(first_year) ELSE orig

\* the second assign, which overwrites the first
first_technology_year(orig, first_year) ==
    IF FGt(orig, Num(first_year)) THEN orig ELSE Num(first_year)

all_first_year(first_year, module) ==
    LET tech_map == DropDuplicates(MapRows(merged_tech_map(module), LAMBDA x :
                        [message_technology |-> x.message_technology,
                         reg_diff_source |-> x.reg_diff_source,
                         reg_diff_technology |-> x.reg_diff_technology]))
        Adjust(orig) == first_technology_year(orig, first_year)
    IN  LeftMerge(tech_map, df_first_year(module),
            LAMBDA a, b : a.message_technology = b.message_technology,
            LAMBDA a, b : [message_technology |-> a.message_technology,
                           reg_diff_source |-> a.reg_diff_source,
                           reg_diff_technology |-> a.reg_diff_technology,
                           first_technology_year |-> Adjust(b.first_year_original)],
            LAMBDA a : [message_technology |-> a.message_technology,
                        reg_diff_source |-> a.reg_diff_source,
                        reg_diff_technology |-> a.reg_diff_technology,
                        first_technology_year |-> Adjust(NaN)])

adj_first_year(first_year, module) ==
    DropDuplicates(MapRows(all_first_year(first_year, module), LAMBDA x :
        [message_technology |-> x.message_technology,
         first_technology_year |-> x.first_technology_year,
         scenario_technology |->
            IF x.reg_diff_source = "weo" THEN x.message_technology
            ELSE IF x.reg_diff_source = "energy" THEN x.reg_diff_technology
            ELSE x.message_technology]))

Scen4(techrow, scen, rate) ==
    [message_technology |-> techrow.message_technology,
     first_technology_year |-> techrow.first_technology_year,
     scenario |-> scen,
     reduction_rate |-> rate]

existing_scens(adj) ==
    LET merged == InnerMerge(adj, ReadCsv(csv.scenarios_reduction),
                    LAMBDA a, b : a.scenario_technology = b.message_technology,
                    LAMBDA a, b : [message_technology |-> a.message_technology,
                                   first_technology_year |-> a.first_technology_year,
                                   rates |-> b.rates])
    IN  FlatMapRows(merged, LAMBDA x : {Scen4(x, s, x.rates[s]) : s \in DOMAIN x.rates})

remaining_scens(adj) ==
    LET have == Column(existing_scens(adj), LAMBDA x : x.message_technology)
    IN  FlatMapRows(Query(adj, LAMBDA x : x.message_technology \notin have),
                    LAMBDA x : {Scen4(x, s, "none") : s \in Scenarios})

get_technology_reduction_scenarios_data(first_year, module) ==
    LET adj == adj_first_year(first_year, module)
    IN  Concat(existing_scens(adj), remaining_scens(adj))

\* the year to which the cost reduction is assumed to be reached
HorizonYear == 2100

\* q^(tn/td) for a rational q > 0, q # 1 and tn > 0, td > 0 in lowest terms
RatPow(q, tn, td) ==
    LET rn == IntRoot(q[1], td)
        rd == IntRoot(q[2], td)
    IN  IF rn < 0 \/ rd < 0 THEN <<1, 1, q[1], q[2], tn, td, 0, 1>>
        ELSE Rat(IntPow(rn, tn), IntPow(rd, tn))

\* numpy.exp(((1 / den) * numpy.log(arg)) * dy), for den # 0
ExpLogRate(arg, den, dy) ==
    IF IsNaN(arg) \/ arg[1] < 0 THEN NaN
    ELSE IF arg[1] = 0 \/ arg = PosInf
         THEN LET logsign == IF arg[1] = 0 THEN -1 ELSE 1
                  e == logsign * Sign(den) * Sign(dy)
              IN  IF e = 0 THEN NaN ELSE IF e < 0 THEN Num(0) ELSE PosInf
    ELSE IF arg = Num(1) \/ dy = 0 THEN Num(1)
    ELSE LET g == GCD(Abs(dy), Abs(den))
             neg == (dy < 0) # (den < 0)
             q == IF neg THEN Rat(arg[2], arg[1]) ELSE arg
         IN  RatPow(q, Abs(dy) \div g, Abs(den) \div g)

\* a * E + b, where E may be an irrational power
Affine(a, E, b) ==
    IF ~IsIrr(E) THEN FAdd(FMul(a, E), b)
    ELSE IF IsRat(a) /\ IsRat(b)
         THEN (IF a[1] = 0 THEN b
               ELSE <<a[1], a[2], E[3], E[4], E[5], E[6], b[1], b[2]>>)
    ELSE FAdd(FMul(a, NaN), b)

\* mutation: the reduction added to the base-year cost instead of subtracted
cost_region_2100_added(x) ==
    FAdd(x.reg_cost_base_year, FMul(x.reg_cost_base_year, x.cost_reduction))

cost_region_2100(x) ==
    FSub(x.reg_cost_base_year, FMul(x.reg_cost_base_year, x.cost_reduction))

\* mutant: the asymptote taken as rate * Ch instead of (1 - rate) * Ch
decay_b_rate_not_complemented(x, cfg) ==
    FMul(cfg.pre_last_year_rate, cost_region_2100(x))

decay_b(x, cfg) == FMul(FSub(Num(1), cfg.pre_last_year_rate), cost_region_2100(x))

\* the argument of the logarithm in r
decay_r_arg(x, cfg) ==
    FDiv(FSub(cost_region_2100(x), decay_b(x, cfg)),
         FSub(x.reg_cost_base_year, decay_b(x, cfg)))

\* mutation: the reduction is reached in the last year of seq_years
ycur_to_final_year(x, y, cfg) ==
    IF y <= cfg.base_year THEN x.reg_cost_base_year
    ELSE Affine(FSub(x.reg_cost_base_year, decay_b(x, cfg)),
                ExpLogRate(decay_r_arg(x, cfg),
                           cfg.seq_years[Len(cfg.seq_years)] - cfg.base_year,
                           y - cfg.base_year),
                decay_b(x, cfg))

ycur(x, y, cfg) ==
    IF y <= cfg.base_year THEN x.reg_cost_base_year
    ELSE Affine(FSub(x.reg_cost_base_year, decay_b(x, cfg)),
                ExpLogRate(decay_r_arg(x, cfg), HorizonYear - cfg.base_year,
                           y - cfg.base_year),
                decay_b(x, cfg))

SeqToSet(sq) == {sq[i] : i \in DOMAIN sq}

\* the cost reductions left-merged with the scenario assignments
df_cost_reduction(rates, scenarios) ==
    LeftMerge(rates, scenarios,
        LAMBDA a, b : a.message_technology = b.message_technology
                      /\ a.reduction_rate = b.reduction_rate,
        LAMBDA a, b : [message_technology |-> a.message_technology,
                       reduction_rate |-> a.reduction_rate,
                       cost_reduction |-> a.cost_reduction,
                       first_technology_year |-> b.first_technology_year,
                       scenario |-> b.scenario],
        LAMBDA a : [message_technology |-> a.message_technology,
                    reduction_rate |-> a.reduction_rate,
                    cost_reduction |-> a.cost_reduction,
                    first_technology_year |-> NaN,
                    scenario |-> NA])

df_ref(regional_diff, cfg, rates, scenarios) ==
    InnerMerge(Query(regional_diff, LAMBDA x : x.region = cfg.ref_region),
               df_cost_reduction(rates, scenarios),
        LAMBDA a, b : a.message_technology = b.message_technology,
        LAMBDA a, b :
            LET x == [reg_cost_base_year |-> a.reg_cost_base_year,
                      cost_reduction |-> b.cost_reduction]
            IN  [message_technology |-> a.message_technology,
                 reg_diff_source |-> a.reg_diff_source,
                 reg_diff_technology |-> a.reg_diff_technology,
                 region |-> a.region,
                 base_year_reference_region_cost |-> a.base_year_reference_region_cost,
                 reg_cost_ratio |-> a.reg_cost_ratio,
                 fix_ratio |-> a.fix_ratio,
                 reg_cost_base_year |-> a.reg_cost_base_year,
                 reduction_rate |-> b.reduction_rate,
                 cost_reduction |-> b.cost_reduction,
                 first_technology_year |-> b.first_technology_year,
                 scenario |-> b.scenario,
                 cost_region_2100 |-> cost_region_2100(x),
                 b |-> decay_b(x, cfg),
                 r |-> <<decay_r_arg(x, cfg), HorizonYear - cfg.base_year>>,
                 reference_region |-> cfg.ref_region,
                 years |-> [y \in SeqToSet(cfg.seq_years) |-> ycur(x, y, cfg)]])

\* the projector from its two look-ups onwards: rates and scenarios are what
\* get_cost_reduction_data and get_technology_reduction_scenarios_data returned to it
project_ref_region_inv_costs_using_reduction_rates(regional_diff, cfg, rates, scenarios) ==
    DropDuplicates(FlatMapRows(df_ref(regional_diff, cfg, rates, scenarios), LAMBDA x :
        {[message_technology |-> x.message_technology,
          scenario |-> x.scenario,
          reference_region |-> x.reference_region,
          first_technology_year |-> x.first_technology_year,
          year |-> y,
          inv_cost_ref_region_decay |-> x.years[y]] : y \in DOMAIN x.years}))

(***************************************************************************)
(* Inputs: the contents of the data files and of the configuration.        *)
(* Every file is keyed by technology (one row per technology and file).    *)
(***************************************************************************)
\* number of reduction-rate categories (columns of cost_reduction.csv) in use
NumRates == 2
\* number of base-cost levels tried
NumCosts == 2
\* number of periods of the projection grid
NumPeriods == 4

RateNames == <<"very_low", "low", "medium", "high", "very_high", "extreme">>
Rates == {RateNames[i] : i \in 1..NumRates}
RateIndex(c) == CHOOSE i \in 1..Len(RateNames) : RateNames[i] = c

ScenarioOrder == <<"SSP1", "SSP2", "SSP3", "SSP4", "SSP5", "LED">>

PeriodYear(i) == 2020 + 40 * (i - 1)
\* the periods from the i-th to the j-th of the grid, in increasing order
YearSeq(i, j) == [k \in 1..(j - i + 1) |-> PeriodYear(i + k - 1)]

MapRow(t, src, rdt, cost, fix) ==
    [message_technology |-> t, reg_diff_source |-> src, reg_diff_technology |-> rdt,
     base_year_reference_region_cost |-> cost, fix_ratio |-> fix]

\* tech_map_energy.csv: both technologies are mapped to WEO; gas_ppl may carry a
\* manually specified base cost and fix ratio
EnergyMapFiles ==
    {{MapRow("coal_ppl", "weo", "steam_coal_subcritical", NaN, NaN), g} :
        g \in {MapRow("gas_ppl", "weo", "ccgt", NaN, NaN),
               MapRow("gas_ppl", "weo", "ccgt", Num(80), Rat(1, 20))}}

\* tech_map_materials.csv: an override of gas_ppl and one materials technology
MaterialsMapFiles ==
    {g \cup f :
        g \in {{}, {MapRow("gas_ppl", "energy", "coal_ppl", NaN, NaN)}},
        f \in {{},
               {MapRow("furnace", NA, NA, NaN, NaN)},
               {MapRow("furnace", NA, NA, Rat(5, 2), NaN)},
               {MapRow("furnace", "intratec", "all", Num(40), Rat(1, 10))},
               {MapRow("furnace", "energy", "coal_ppl", NaN, NaN)},
               {MapRow("furnace", "energy", "gas_ppl", NaN, NaN)}}}

FirstYearRow(t, y) == [message_technology |-> t, first_year_original |-> y]

EnergyFirstYearFiles ==
    {{FirstYearRow("coal_ppl", Num(2010))} \cup g :
        g \in {{}, {FirstYearRow("gas_ppl", Num(2030))}}}

MaterialsFirstYearFiles ==
    {g \cup f :
        g \in {{}, {FirstYearRow("gas_ppl", Num(2030))}, {FirstYearRow("gas_ppl", Num(2040))}},
        f \in {{FirstYearRow("furnace", NaN)}, {FirstYearRow("furnace", Num(2040))}}}

ReductionLevels(t) ==
    IF t = "coal_ppl"
    THEN <<Rat(3, 5), Rat(3, 4), Rat(1, 2), Rat(1, 4), Rat(1, 10), Rat(1, 20)>>
    ELSE <<NaN, Num(1), Rat(3, 5), Rat(1, 2), Rat(1, 4), Rat(1, 10)>>

ReductionRow(t) ==
    [message_technology |-> t, technology_type |-> "NA",
     rates |-> [c \in Rates |-> ReductionLevels(t)[RateIndex(c)]]]

\* cost_reduction.csv
CostReductionFiles == {{ReductionRow("coal_ppl")} \cup g : g \in {{}, {ReductionRow("gas_ppl")}}}

Uniform(c) == [s \in Scenarios |-> c]
Staggered ==
    [s \in Scenarios |->
        RateNames[((CHOOSE i \in 1..6 : ScenarioOrder[i] = s) % NumRates) + 1]]

ScenarioRow(t, profile) == [message_technology |-> t, rates |-> profile]

\* scenarios_reduction.csv
ScenarioFiles ==
    {{ScenarioRow("coal_ppl", c)} \cup g :
        c \in {Uniform(RateNames[1]), Staggered},
        g \in {{}, {ScenarioRow("gas_ppl", Uniform(RateNames[NumRates]))}}}

CostLevels == {Num(100 * k) : k \in 1..NumCosts}

DiffRow(t, region, base, ratio) ==
    [message_technology |-> t, reg_diff_source |-> "weo", reg_diff_technology |-> t,
     region |-> region, base_year_reference_region_cost |-> base,
     reg_cost_ratio |-> ratio, fix_ratio |-> Rat(1, 40),
     reg_cost_base_year |-> FMul(base, ratio)]

\* a regional-differentiation table: base cost cost[t] in the reference region
DiffTable(cost) ==
    SetToBag(UNION {{DiffRow(t, "R11_NAM", cost[t], Num(1)),
                     DiffRow(t, "R11_WEU", cost[t], Rat(3, 2))} : t \in DOMAIN cost})

Config(module, base_year, rate, years) ==
    [module |-> module, node |-> "R11", ref_region |-> "R11_NAM",
     base_year |-> base_year, y0 |-> 2020,
     pre_last_year_rate |-> rate, seq_years |-> years]

\* a configuration of which only module, node and ref_region are varied
RegionConfig(module, node, ref_region) ==
    [Config(module, PeriodYear(1), Rat(1, 2), YearSeq(1, NumPeriods))
        EXCEPT !.node = node, !.ref_region = ref_region]

Files(em, mm, ef, mf, cr, sc) ==
    [tech_map |-> [m \in {"energy", "materials"} |-> IF m = "energy" THEN em ELSE mm],
     first_year |-> [m \in {"energy", "materials"} |-> IF m = "energy" THEN ef ELSE mf],
     cost_reduction |-> cr,
     scenarios_reduction |-> sc]

CostsUncalled ==
    /\ all_rates = NotCalled
    /\ all_scens = NotCalled
    /\ df_inv_ref = NotCalled

(***************************************************************************)
(* project/shape/data.py                                                   *)
(***************************************************************************)
None == "None"

INFO ==
    [gdp |-> [latest |-> "1.2", suffix |-> ".mif", variable |-> "GDP|PPP", drop |-> {}],
     gini |-> [latest |-> "1.1", suffix |-> ".csv", variable |-> "Gini",
               drop |-> {"tgt.achieved", "Base gini imputed",
                         "Share of final consumption among GDP imputed"}],
     population |-> [latest |-> "1.2", suffix |-> ".mif", variable |-> "Population",
                     drop |-> {}],
     urbanisation |-> [latest |-> "1.0", suffix |-> ".csv",
                       variable |-> "Population|Urban|Share", drop |-> {"Notes"}]]

\* dict.pop(key, default): the value and the dict without the key
PopValue(kw, key, default) == IF key \in DOMAIN kw THEN kw[key] ELSE default
PopRest(kw, key) == [k \in DOMAIN kw \ {key} |-> kw[k]]

\* mutation: the version string is used as given
ReplaceLatestNot(version, latest) == version

\* version.replace("latest", latest) on the version strings that occur
ReplaceLatest(version, latest) == IF version = "latest" THEN latest ELSE version

\* version.replace(".", "p")
ReplaceDots(version) ==
    CASE version = "1.0" -> "1p0"
      [] version = "1.1" -> "1p1"
      [] version = "1.2" -> "1p2"
      [] version = "2.0" -> "2p0"
      [] OTHER -> version

\* ExoDataSource.raise_on_extra_kw: unknown keyword arguments are an error
raise_on_extra_kw(kw) == IF DOMAIN kw = {} THEN "ok" ELSE "ExtraKeywords"

\* util.path_fallback(..., where="private test"): the private file if it exists,
\* else the test file, else an error
path_fallback(name, files) ==
    IF files = "nowhere" THEN [status |-> "NotFound", parts |-> <<>>]
    ELSE [status |-> "ok", parts |-> [where |-> files, dir |-> "shape", name |-> name]]

ShapeRaised(e, kw, calls) ==
    [status |-> e, source_kw |-> kw, calls |-> calls, log |-> {}, path |-> <<>>,
     query |-> <<>>, to_drop |-> {}, unique |-> "", extra_dims |-> <<>>]

\* SHAPE.__init__
SHAPE_init(src, kw, files) ==
    IF src # "SHAPE" THEN ShapeRaised("ValueError", kw, {})
    ELSE
    LET measure == PopValue(kw, "measure", None)
        kw1 == PopRest(kw, "measure")
        version == PopValue(kw1, "version", "latest")
        kw2 == PopRest(kw1, "version")
        scenario == PopValue(kw2, "scenario", None)
        kw3 == PopRest(kw2, "scenario")
    IN  IF measure \notin DOMAIN INFO THEN ShapeRaised("ValueError", kw3, {})
        ELSE IF raise_on_extra_kw(kw3) # "ok"
        THEN ShapeRaised(raise_on_extra_kw(kw3), kw3, {})
        ELSE
        LET info == INFO[measure]
            name == [measure |-> measure,
                     version |-> ReplaceDots(ReplaceLatest(version, info.latest)),
                     suffix |-> info.suffix]
            found == path_fallback(name, files)
        IN  IF found.status # "ok" THEN ShapeRaised(found.status, kw3, {name})
            ELSE [status |-> "ok", source_kw |-> kw3, calls |-> {name},
                  log |-> IF "test" \in {found.parts.where, found.parts.dir}
                          THEN {[msg |-> "Reading random data", names |-> {name}]}
                          ELSE {},
                  path |-> found.parts,
                  query |-> <<IF scenario # None THEN <<"Scenario ==", scenario>>
                              ELSE <<"True">>,
                              <<"Variable ==", info.variable>>>>,
                  to_drop |-> info.drop,
                  unique |-> IF scenario # None THEN "MODEL SCENARIO VARIABLE UNIT"
                             ELSE "MODEL VARIABLE UNIT",
                  extra_dims |-> IF scenario # None THEN <<>> ELSE <<"SCENARIO">>]

shapeVars == <<source, source_kw, shape_files, path_fallback_calls, shape>>

(***************************************************************************)
(* model/material: read_config, get_spec and the solve command             *)
(***************************************************************************)
\* context[key] = value
SetItem(ctx, key, value) ==
    [k \in DOMAIN ctx \cup {key} |-> IF k = key THEN value ELSE ctx[k]]

\* dict.get(key, default)
DictGet(d, key, default) == IF key \in DOMAIN d THEN d[key] ELSE default

AlreadyLoadedNever(ctx) == FALSE

\* if "material set" in context
AlreadyLoaded(ctx) == "material set" \in DOMAIN ctx

\* read_config(): the context and the number of files loaded so far, after the
\* call. load_private_data returns a new object each time: id tells objects
\* apart, set is what set.yaml holds under "set".
read_config(ctx, file, loads) ==
    IF AlreadyLoaded(ctx)
    THEN [context |-> ctx, loads |-> loads]
    ELSE LET ctx1 == SetItem(ctx, "material set", [id |-> loads + 1, set |-> file.set])
             ctx2 == SetItem(ctx1, "material", ctx1["material set"])
         IN  [context |-> ctx2, loads |-> loads + 1]

\* get_spec(), given the context read_config returned
get_spec(ctx) ==
    LET sets == ctx["material"].set
    IN  [require |-> [set_name \in DOMAIN sets |-> DictGet(sets[set_name], "require", <<>>)],
         remove |-> <<>>,
         add |-> [set_name \in DOMAIN sets |-> DictGet(sets[set_name], "add", <<>>)]]

\* the lookup table of solve()
OutputScenarioNames ==
    [k \in {"baseline", "NPi2020-con-prim-dir-ncr", "NPi2020_1000-con-prim-dir-ncr",
            "NPi2020_400-con-prim-dir-ncr"} |->
        CASE k = "baseline" -> "NoPolicy"
          [] k = "NPi2020-con-prim-dir-ncr" -> "NPi"
          [] k = "NPi2020_1000-con-prim-dir-ncr" -> "NPi2020_1000"
          [] k = "NPi2020_400-con-prim-dir-ncr" -> "NPi2020_400"]

\* {...}.get(context.scenario_info["scenario"])
output_scenario_name(info) == DictGet(OutputScenarioNames, info.scenario, None)

\* the calls solve() makes on scenarios: clone, then build (apply_spec with the
\* specification), then solve
solve_calls(info, built_spec) ==
    <<[op |-> "clone", model |-> "Material_test", scenario |-> output_scenario_name(info)],
      [op |-> "apply_spec", model |-> "Material_test", scenario |-> output_scenario_name(info),
       spec |-> built_spec],
      [op |-> "solve", model |-> "Material_test", scenario |-> output_scenario_name(info)]>>

materialVars ==
    <<context, scenario_info, set_yaml, material_loads, material_calls, material_spec,
      platform>>

MaterialUncalled ==
    /\ context = <<>>
    /\ material_loads = 0 /\ material_calls = 0
    /\ material_spec = [status |-> "none"]
    /\ platform = <<>>

MaterialIdle ==
    /\ scenario_info = [model |-> None, scenario |-> None]
    /\ set_yaml = [set |-> <<>>]
    /\ MaterialUncalled


(***************************************************************************)
(* model/transport/report.py: the reporting callback                       *)
(***************************************************************************)
\* the plots of transport.plot, by basename
PLOTS == {"energy-by-cmdty", "stock-ldv", "stock-non-ldv"}

PlotKey(basename) == "plot " \o basename

\* context["transport set"]["technology"]["add"]: the technologies with children
TechnologyGroups ==
    [g \in {"LDV", "RAIL"} |-> IF g = "LDV" THEN {"ELC_100", "ICE_conv"} ELSE {"rail_pub"}]

StockKeys ==
    {"CAP:nl-t-ya:ldv", "CAP:nl-t-ya:non-ldv", "distance:nl-driver_type:ldv",
     "stock:nl-t-ya-driver_type:ldv", "distance:nl:non-ldv", "stock:nl-t-ya:non-ldv"}

\* rep.add(key, ...) for every key of a set, each depending on deps
AddKeys(graph, keys, deps) ==
    [k \in DOMAIN graph \cup keys |-> IF k \in keys THEN deps ELSE graph[k]]

SolvedNever(graph, solution) == FALSE

\* try: rep.graph["scenario"].has_solution() except KeyError: False
Solved(graph, solution) == IF "scenario" \in DOMAIN graph THEN solution ELSE FALSE

\* add_plots(rep): the graph afterwards, and the error raised, if any
add_plots(graph, solution, failures) ==
    LET solved == Solved(graph, solution)
        added == {PlotKey(plot) : plot \in PLOTS \ failures}
    IN  IF failures # {} /\ solved
        THEN [status |-> "Raised", graph |-> AddKeys(graph, added, {}), log |-> {}]
        ELSE [status |-> "ok",
              graph |-> AddKeys(AddKeys(graph, added, {}), {"transport plots"}, added),
              log |-> {"Add 'transport plots' collecting plots"}
                      \cup {"Failed to add " \o PlotKey(plot) : plot \in failures}]

\* callback(rep)
callback(graph, solution, failures, filter) ==
    LET solved == Solved(graph, solution)
        groups == {"t:transport " \o g : g \in DOMAIN TechnologyGroups}
        g1 == AddKeys(graph, {"t:transport", "c:transport", "t:transport non-LDV"}
                               \cup groups, {})
        filters == IF filter THEN UNION {TechnologyGroups[g] : g \in DOMAIN TechnologyGroups}
                   ELSE {}
        log1 == IF filter THEN {"Filter out non-transport technologies"} ELSE {}
        \* rep.full_key(k) raises KeyError for a key the graph does not hold
        resolved == {k \in {"in", "out"} : k \in DOMAIN graph}
        g2 == AddKeys(AddKeys(g1, {k \o "::transport" : k \in resolved}, resolved),
                      StockKeys, {"CAP"})
        g3 == AddKeys(g2, {"transport all"}, {"transport plots"})
        g4 == AddKeys(g3, {"transport check"}, {"scenario", "ACT:nl-t-yv-ya-m-h"})
        plots == add_plots(g4, solution, failures)
    IN  IF resolved # {"in", "out"} /\ solved
        THEN [status |-> "Raised", graph |-> g1, filters |-> filters, log |-> log1]
        ELSE [status |-> IF plots.status = "ok" THEN "Returned" ELSE "Raised",
              graph |-> plots.graph, filters |-> filters, log |-> log1 \cup plots.log]

transportVars == <<rep, has_solution, plot_failures, report_filter, callback_result>>

TransportUncalled == callback_result = "NotCalled"

TransportIdle ==
    /\ rep = [graph |-> <<>>, filters |-> {}]
    /\ has_solution = FALSE /\ plot_failures = {} /\ report_filter = FALSE
    /\ TransportUncalled

otherVars == <<shapeVars, materialVars, transportVars>>

ShapeUncalled ==
    /\ path_fallback_calls = {}
    /\ shape = [status |-> "none"]

ShapeIdle ==
    /\ source = None /\ source_kw = <<>> /\ shape_files = "nowhere"
    /\ ShapeUncalled

\* the modules other than tools/costs are not in use
OthersIdle == ShapeIdle /\ MaterialIdle /\ TransportIdle

CacheEmpty ==
    /\ region_map_cache = <<>>
    /\ cache_info = [hits |-> 0, misses |-> 0]
    /\ codelist_loads = [n \in {"R11", "R12", "R20"} |-> 0]
    /\ weo_region_map = [regions |-> "none", result |-> <<>>]

RegDiffUncalled ==
    /\ CacheEmpty
    /\ sub_map = NotCalled
    /\ log = {}
    /\ df_merged = NotCalled
    /\ df_map = NotCalled
    /\ df_weo = NotCalled
    /\ df_intratec = NotCalled
    /\ all_tech = NotCalled

costVars == <<regional_diff_df, all_rates, all_scens, df_inv_ref>>
cacheVars == <<region_map_cache, cache_info, codelist_loads, weo_region_map>>
subsetVars == <<raw_map_materials, sub_map>>
regDiffVars ==
    <<weo_xlsb, intratec_xlsx, log, df_merged, df_map, df_weo, df_intratec, all_tech,
      cacheVars, subsetVars, otherVars>>

\* varied file contents under one configuration
InitFiles ==
    /\ \E em \in EnergyMapFiles, cr \in CostReductionFiles, sc \in ScenarioFiles,
          ef \in EnergyFirstYearFiles, module \in {"energy", "materials"} :
          \E mm \in IF module = "energy" THEN {{}} ELSE MaterialsMapFiles,
             mf \in IF module = "energy" THEN {{}} ELSE MaterialsFirstYearFiles :
             /\ csv = Files(em, mm, ef, mf, cr, sc)
             /\ config = Config(module, PeriodYear(1), Rat(1, 2), YearSeq(1, NumPeriods))
    /\ regional_diff_df = DiffTable([t \in {"coal_ppl", "gas_ppl", "furnace"} |-> Num(100)])
    /\ CostsUncalled

\* varied configurations and base costs over one set of files
InitCurve ==
    /\ \E profile \in {Uniform(RateNames[1]), Staggered} :
          csv = Files({MapRow("coal_ppl", "weo", "steam_coal_subcritical", NaN, NaN),
                       MapRow("gas_ppl", "weo", "ccgt", NaN, NaN)},
                      {}, {FirstYearRow("coal_ppl", Num(2010))}, {},
                      {ReductionRow("coal_ppl")}, {ScenarioRow("coal_ppl", profile)})
    /\ \E b \in 1..2, rate \in {Num(0), Rat(1, 100), Rat(1, 2), Num(1)},
          first \in 1..2, last \in (NumPeriods - 1)..NumPeriods :
          config = Config("energy", PeriodYear(b), rate, YearSeq(first, last))
    /\ \E cost \in [{"coal_ppl", "gas_ppl"} -> CostLevels] :
          regional_diff_df = DiffTable(cost)
    /\ CostsUncalled

InitCosts ==
    /\ InitFiles \/ InitCurve
    /\ OthersIdle
    /\ raw_map_materials = EmptyBag
    /\ weo_xlsb = {} /\ intratec_xlsx = {}
    /\ RegDiffUncalled

\* project_ref_region_inv_costs_using_reduction_rates runs in three steps: it
\* fetches the cost reductions, then the scenarios, then merges and projects.
GetCostReductionData ==
    /\ all_rates = NotCalled
    /\ all_rates' = Returned(get_cost_reduction_data(config.module))
    /\ UNCHANGED <<csv, config, regional_diff_df, all_scens, df_inv_ref, regDiffVars>>

GetTechnologyReductionScenariosData ==
    /\ all_rates # NotCalled
    /\ all_scens = NotCalled
    /\ all_scens' = Returned(get_technology_reduction_scenarios_data(config.y0, config.module))
    /\ UNCHANGED <<csv, config, regional_diff_df, all_rates, df_inv_ref, regDiffVars>>

ProjectRefRegionInvCosts ==
    /\ all_scens # NotCalled
    /\ df_inv_ref = NotCalled
    /\ df_inv_ref' =
          IF config.base_year = HorizonYear THEN Raised("ZeroDivisionError")
          ELSE Returned(project_ref_region_inv_costs_using_reduction_rates(
                            regional_diff_df, config, all_rates.value, all_scens.value))
    /\ UNCHANGED <<csv, config, regional_diff_df, all_rates, all_scens, regDiffVars>>

vars == <<csv, config, costVars, regDiffVars>>

NextCosts ==
    \/ GetCostReductionData
    \/ GetTechnologyReductionScenariosData
    \/ ProjectRefRegionInvCosts

SpecCosts == InitCosts /\ [][NextCosts]_vars

(***************************************************************************)
(* Inputs of the regional differentiation                                  *)
(***************************************************************************)
WeoTechnologies == {"steam_coal_subcritical", "ccgt"}
WeoRegions == {"United States", "European Union", "China"}
CostTypes == {"inv_cost", "fix_cost"}

WeoCell(ct, t, r, y, v) ==
    [cost_type |-> ct, weo_technology |-> t, weo_region |-> r, year |-> y, value |-> v]

\* the printed cost, in 2021 USD per kW, with the United States level k
WeoPrinted(ct, t, r, y, k) ==
    LET size == IF t = "steam_coal_subcritical" THEN 2 ELSE 1
        place == CASE r = "United States" -> 20 * k
                   [] r = "European Union" -> 30
                   [] OTHER -> 10
        learning == CASE y = "2021" -> 0 [] y = "2030" -> 2 [] OTHER -> 4
    IN  IF ct = "inv_cost" THEN Num(size * (place - learning))
        ELSE Num(size * (IF r = "United States" THEN 2 ELSE 1))

WeoKeys == CostTypes \X WeoTechnologies \X WeoRegions \X SeqToSet(YearColumns)

\* cells that may be printed as "n.a."
HoleCells == {c \in WeoKeys : c[2] = "steam_coal_subcritical" /\ c[4] # "2050"}

WeoFile(holes, k) ==
    {WeoCell(c[1], c[2], c[3], c[4],
             IF c \in holes THEN <<"n.a.">> ELSE WeoPrinted(c[1], c[2], c[3], c[4], k)) :
        c \in WeoKeys}

HoleSets == {{}} \cup {{c} : c \in HoleCells}

IntratecCell(type, region, v) == [type |-> type, region |-> region, value |-> v]

\* the comparison sheet: the index row, another row, and a row without a type
IntratecFile(k) ==
    UNION {{IntratecCell("Intratec index", r,
                         CASE r = "NAM" -> Num(100 * k)
                           [] r = "WEU" -> Num(120)
                           [] r = "CHN" -> Num(80)
                           [] OTHER -> Num(90)),
            IntratecCell("Location factor", r, Num(1)),
            IntratecCell(NA, r, NaN)} : r \in {"NAM", "WEU", "CHN", "RCPA"}}

Nodes == {"R11", "R12", "R20"}
RefRegionInputs == {"R11_NAM", "r11_weu", "R11_CPA", "r12_chn", "R12_rcpa", "R20_NAM"}

\* tech_map_materials.csv as the mapping adjustment may meet it
RegDiffMaterialsMapFiles ==
    {g \cup f :
        g \in {{}, {MapRow("gas_ppl", "energy", "coal_ppl", NaN, NaN)},
               {MapRow("gas_ppl", NA, NA, NaN, NaN)},
               {MapRow("gas_ppl", "weo", "ccgt", Rat(141, 2), NaN)}},
        f \in {{},
               {MapRow("furnace", NA, NA, NaN, NaN)},
               {MapRow("furnace", NA, NA, Rat(5, 2), NaN)},
               {MapRow("furnace", "intratec", "all", Num(40), Rat(1, 10))},
               {MapRow("furnace", "intratec", "all", Num(40), NaN),
                MapRow("kiln", NA, NA, Num(25), NaN)},
               {MapRow("furnace", "intratec", "all", NaN, NaN)},
               {MapRow("furnace", "energy", "coal_ppl", NaN, NaN)},
               {MapRow("furnace", "energy", "kiln", Num(30), NaN)},
               {MapRow("furnace", "survey", "kiln", NaN, NaN)}}}

\* tech_map_energy.csv, also with gas_ppl mapped to a WEO technology of which the
\* cost tables hold no row
RegDiffEnergyMapFiles ==
    EnergyMapFiles
        \cup {{MapRow("coal_ppl", "weo", "steam_coal_subcritical", NaN, NaN),
                MapRow("gas_ppl", "weo", "igcc", NaN, NaN)}}

\* varied source data and regions, energy module
InitSources ==
    /\ csv = Files({MapRow("coal_ppl", "weo", "steam_coal_subcritical", NaN, NaN),
                    MapRow("gas_ppl", "weo", "ccgt", Num(80), Rat(1, 20))},
                   {}, {}, {}, {}, {})
    /\ \E node \in Nodes, ref_region \in RefRegionInputs :
          config = RegionConfig("energy", node, ref_region)
    /\ \E k \in 1..NumCosts, holes \in HoleSets :
          /\ weo_xlsb = WeoFile(holes, k)
          /\ intratec_xlsx = IntratecFile(k)

\* varied mappings over one set of source data
InitMappings ==
    /\ \E em \in RegDiffEnergyMapFiles, module \in {"energy", "materials"} :
          \E mm \in IF module = "energy" THEN {{}} ELSE RegDiffMaterialsMapFiles :
             /\ csv = Files(em, mm, {}, {}, {}, {})
             /\ \E nr \in {<<"R11", "R11_NAM">>, <<"R12", "r12_chn">>} :
                   config = RegionConfig(module, nr[1], nr[2])
    /\ weo_xlsb = WeoFile({<<"inv_cost", "steam_coal_subcritical", "China", "2021">>}, 1)
    /\ intratec_xlsx = IntratecFile(1)

InitRegDiff ==
    /\ InitSources \/ InitMappings
    /\ OthersIdle
    /\ raw_map_materials = EmptyBag
    /\ regional_diff_df = EmptyBag
    /\ CostsUncalled
    /\ RegDiffUncalled

\* each function of the module is called once, in any order
GetWeoData ==
    /\ df_merged = NotCalled
    /\ df_merged' = Returned(get_weo_data)
    /\ UNCHANGED <<csv, config, costVars, weo_xlsb, intratec_xlsx, log, df_map, df_weo,
                   df_intratec, all_tech, cacheVars, subsetVars, otherVars>>

AdjustTechnologyMapping ==
    /\ df_map = NotCalled
    /\ df_map' = Returned(adjust_technology_mapping(config.module))
    /\ log' = log \cup adjust_technology_mapping_log(config.module)
    /\ UNCHANGED <<csv, config, costVars, weo_xlsb, intratec_xlsx, df_merged, df_weo,
                   df_intratec, all_tech, cacheVars, subsetVars, otherVars>>

GetWeoRegionalDifferentiation ==
    /\ df_weo = NotCalled
    /\ df_weo' = get_weo_regional_differentiation(config.node, config.ref_region)
    /\ log' = log \cup get_weo_regional_differentiation_log
    /\ CallGetWeoRegionMap(config.node)
    /\ UNCHANGED <<csv, config, costVars, weo_xlsb, intratec_xlsx, df_merged, df_map,
                   df_intratec, all_tech, weo_region_map, subsetVars, otherVars>>

GetIntratecRegionalDifferentiation ==
    /\ df_intratec = NotCalled
    /\ df_intratec' = get_intratec_regional_differentiation(config.node, config.ref_region)
    /\ UNCHANGED <<csv, config, costVars, weo_xlsb, intratec_xlsx, log, df_merged,
                   df_map, df_weo, all_tech, cacheVars, subsetVars, otherVars>>

ApplyRegionalDifferentiation ==
    /\ all_tech = NotCalled
    /\ all_tech' = apply_regional_differentiation(config)
    /\ log' = log \cup adjust_technology_mapping_log(config.module)
                  \cup get_weo_regional_differentiation_log
    /\ CallGetWeoRegionMap(config.node)
    /\ UNCHANGED <<csv, config, costVars, weo_xlsb, intratec_xlsx, df_merged, df_map,
                   df_weo, df_intratec, weo_region_map, subsetVars, otherVars>>

NextRegDiff ==
    \/ GetWeoData
    \/ AdjustTechnologyMapping
    \/ GetWeoRegionalDifferentiation
    \/ GetIntratecRegionalDifferentiation
    \/ ApplyRegionalDifferentiation

SpecRegDiff == InitRegDiff /\ [][NextRegDiff]_vars

(***************************************************************************)
(* Repeated calls of the cached get_weo_region_map                         *)
(***************************************************************************)
\* calls made in one process
MaxCalls == 5

InitRegionMap ==
    /\ csv = Files({MapRow("coal_ppl", "weo", "steam_coal_subcritical", NaN, NaN),
                    MapRow("gas_ppl", "weo", "ccgt", Num(80), Rat(1, 20))},
                   {}, {}, {}, {}, {})
    /\ \E nr \in {<<"R11", "R11_NAM">>, <<"R12", "r12_chn">>, <<"R20", "R20_NAM">>} :
          config = RegionConfig("energy", nr[1], nr[2])
    /\ weo_xlsb = WeoFile({}, 1)
    /\ intratec_xlsx = IntratecFile(1)
    /\ regional_diff_df = EmptyBag
    /\ raw_map_materials = EmptyBag
    /\ CostsUncalled
    /\ RegDiffUncalled
    /\ OthersIdle

\* a direct call of get_weo_region_map with any node classification
GetWeoRegionMap ==
    /\ cache_info.hits + cache_info.misses < MaxCalls
    /\ \E regions \in Nodes :
          /\ CallGetWeoRegionMap(regions)
          /\ weo_region_map' = [regions |-> regions,
                                result |-> lru_cache_result(region_map_cache, regions)]
    /\ UNCHANGED <<csv, config, costVars, weo_xlsb, intratec_xlsx, log, df_merged,
                   df_map, df_weo, df_intratec, all_tech, subsetVars, otherVars>>

NextRegionMap ==
    \/ GetWeoRegionMap
    \/ GetWeoRegionalDifferentiation

SpecRegionMap == InitRegionMap /\ [][NextRegionMap]_vars

(***************************************************************************)
(* The stages that receive tables, called in any order                     *)
(***************************************************************************)
InitPipeline ==
    /\ \E em \in EnergyMapFiles, module \in {"energy", "materials"} :
          \E mm \in IF module = "energy" THEN {{}} ELSE MaterialsMapFiles :
             /\ csv = Files(em, mm, {FirstYearRow("coal_ppl", Num(2010))},
                            {FirstYearRow("furnace", Num(2040))},
                            {ReductionRow("coal_ppl")},
                            {ScenarioRow("coal_ppl", Staggered)})
             /\ config = RegionConfig(module, "R11", "R11_NAM")
             /\ raw_map_materials = get_raw_technology_mapping("materials")
    /\ regional_diff_df = DiffTable([t \in {"coal_ppl", "gas_ppl", "furnace"} |-> Num(100)])
    /\ weo_xlsb = WeoFile({<<"inv_cost", "steam_coal_subcritical", "China", "2021">>}, 1)
    /\ intratec_xlsx = IntratecFile(1)
    /\ CostsUncalled
    /\ RegDiffUncalled
    /\ OthersIdle

\* a call of subset_materials_map with the table raw_map_materials
SubsetMaterialsMap ==
    /\ sub_map = NotCalled
    /\ sub_map' = Returned(subset_materials_map(raw_map_materials))
    /\ raw_map_materials' = raw_map_after_subset(raw_map_materials)
    /\ UNCHANGED <<csv, config, costVars, weo_xlsb, intratec_xlsx, log, df_merged,
                   df_map, df_weo, df_intratec, all_tech, cacheVars, otherVars>>

NextPipeline ==
    \/ SubsetMaterialsMap
    \/ AdjustTechnologyMapping
    \/ GetWeoRegionalDifferentiation
    \/ ApplyRegionalDifferentiation
    \/ GetCostReductionData
    \/ GetTechnologyReductionScenariosData
    \/ ProjectRefRegionInvCosts

SpecPipeline == InitPipeline /\ [][NextPipeline]_vars

(***************************************************************************)
(* Construction of the SHAPE data source                                   *)
(***************************************************************************)
\* tools/costs is not in use
CostsIdle ==
    /\ csv = Files({}, {}, {}, {}, {}, {})
    /\ config = RegionConfig("energy", "R11", "R11_NAM")
    /\ regional_diff_df = EmptyBag
    /\ weo_xlsb = {} /\ intratec_xlsx = {}
    /\ raw_map_materials = EmptyBag
    /\ CostsUncalled
    /\ RegDiffUncalled

\* the keyword arguments of a call: each of measure, version, scenario and an
\* unknown keyword is given or omitted
SourceKwInputs ==
    {kw \in UNION {[keys -> {"gdp", "gini", "population", "urbanisation", "gdp_ppp",
                             "latest", "1.0", "1.2", "2.0", "innovation"}] :
                      keys \in SUBSET {"measure", "version", "scenario", "model"}} :
        /\ "measure" \in DOMAIN kw =>
              kw["measure"] \in {"gdp", "gini", "population", "urbanisation", "gdp_ppp"}
        /\ "version" \in DOMAIN kw => kw["version"] \in {"latest", "1.0", "1.2", "2.0"}
        /\ "scenario" \in DOMAIN kw => kw["scenario"] = "innovation"
        /\ "model" \in DOMAIN kw => kw["model"] = "innovation"}

InitShape ==
    /\ source \in {"SHAPE", "ADVANCE"}
    /\ source_kw \in SourceKwInputs
    /\ shape_files \in {"private", "test", "nowhere"}
    /\ ShapeUncalled
    /\ CostsIdle
    /\ MaterialIdle
    /\ TransportIdle

\* SHAPE(source, source_kw)
ConstructShape ==
    /\ shape.status = "none"
    /\ LET made == SHAPE_init(source, source_kw, shape_files)
       IN  /\ shape' = [status |-> made.status, path |-> made.path, query |-> made.query,
                        to_drop |-> made.to_drop, unique |-> made.unique,
                        extra_dims |-> made.extra_dims]
           /\ source_kw' = made.source_kw
           /\ path_fallback_calls' = path_fallback_calls \cup made.calls
           /\ log' = log \cup made.log
    /\ UNCHANGED <<csv, config, costVars, weo_xlsb, intratec_xlsx, df_merged, df_map,
                   df_weo, df_intratec, all_tech, cacheVars, subsetVars, source,
                   shape_files, materialVars, transportVars>>

NextShape == ConstructShape

SpecShape == InitShape /\ [][NextShape]_vars

(***************************************************************************)
(* model/material in one process                                           *)
(***************************************************************************)
\* what set.yaml may say about one set
SetConfigs ==
    {<<>>, [require |-> <<"steel">>], [add |-> <<"aluminum">>],
     [require |-> <<"steel">>, add |-> <<"aluminum">>]}

InitMaterial ==
    /\ scenario_info \in
          [model : {"CD_Links_SSP2", "ENGAGE_SSP2"},
           scenario : DOMAIN OutputScenarioNames \cup {"NPi2020_600-con-prim-dir-ncr"}]
    /\ set_yaml \in [set : [{"commodity", "technology"} -> SetConfigs]]
    /\ MaterialUncalled
    /\ CostsIdle
    /\ ShapeIdle
    /\ TransportIdle

idleInMaterial ==
    <<csv, config, costVars, weo_xlsb, intratec_xlsx, df_merged, df_map, df_weo,
      df_intratec, all_tech, cacheVars, subsetVars, shapeVars, transportVars,
      scenario_info, set_yaml>>

ReadConfig ==
    /\ material_calls < MaxCalls
    /\ LET read == read_config(context, set_yaml, material_loads)
       IN  /\ context' = read.context
           /\ material_loads' = read.loads
    /\ material_calls' = material_calls + 1
    /\ UNCHANGED <<idleInMaterial, log, material_spec, platform>>

GetSpec ==
    /\ material_calls < MaxCalls
    /\ LET read == read_config(context, set_yaml, material_loads)
       IN  /\ context' = read.context
           /\ material_loads' = read.loads
           /\ material_spec' = [status |-> "ok", value |-> get_spec(read.context)]
    /\ material_calls' = material_calls + 1
    /\ UNCHANGED <<idleInMaterial, log, platform>>

\* the command "material solve"
Solve ==
    /\ material_calls < MaxCalls
    /\ platform = <<>>
    /\ log' = IF scenario_info.model # "CD_Links_SSP2"
              THEN log \cup {"WARNING: this code is not tested with this base scenario!"}
              ELSE log
    /\ LET read == read_config(context, set_yaml, material_loads)
       IN  /\ context' = read.context
           /\ material_loads' = read.loads
           /\ material_spec' = [status |-> "ok", value |-> get_spec(read.context)]
           /\ platform' = solve_calls(scenario_info, get_spec(read.context))
    /\ material_calls' = material_calls + 1
    /\ UNCHANGED idleInMaterial

NextMaterial ==
    \/ ReadConfig
    \/ GetSpec
    \/ Solve

SpecMaterial == InitMaterial /\ [][NextMaterial]_vars

(***************************************************************************)
(* model/transport: one reporter handed to the callback                    *)
(***************************************************************************)
\* the reporter before the callback: with or without a scenario, and with or
\* without the quantities "in" and "out"
InitTransport ==
    /\ \E keys \in SUBSET {"scenario", "in", "out"} :
          rep = [graph |-> AddKeys(<<>>, keys \cup {"config", "CAP"}, {}), filters |-> {}]
    /\ has_solution \in IF "scenario" \in DOMAIN rep.graph THEN BOOLEAN ELSE {FALSE}
    /\ plot_failures \in SUBSET PLOTS
    /\ report_filter \in BOOLEAN
    /\ TransportUncalled
    /\ CostsIdle
    /\ ShapeIdle
    /\ MaterialIdle

Callback ==
    /\ callback_result = "NotCalled"
    /\ LET done == callback(rep.graph, has_solution, plot_failures, report_filter)
       IN  /\ rep' = [graph |-> done.graph, filters |-> done.filters]
           /\ callback_result' = done.status
           /\ log' = log \cup done.log
    /\ UNCHANGED <<csv, config, costVars, weo_xlsb, intratec_xlsx, df_merged, df_map,
                   df_weo, df_intratec, all_tech, cacheVars, subsetVars, shapeVars,
                   materialVars, has_solution, plot_failures, report_filter>>

NextTransport == Callback

SpecTransport == InitTransport /\ [][NextTransport]_vars

(***************************************************************************)
(* Properties of decay.py, checked under SpecCosts                         *)
(***************************************************************************)
MappedTechs == Column(merged_tech_map(config.module), LAMBDA x : x.message_technology)

\* copies of rows of table T that satisfy P
Copies(T, P(_)) == CountOf({<<x, x, T[x]>> : x \in {y \in DOMAIN T : P(y)}})

\* base-year cost of technology t in the reference region, as handed to the projector
RefCosts(t) ==
    {x.reg_cost_base_year : x \in {y \in DOMAIN regional_diff_df :
        y.message_technology = t /\ y.region = config.ref_region}}

\* C1: in the output of get_technology_reduction_scenarios_data every (technology,
\* scenario) pair, technology in the merged mapping and scenario one of the six,
\* appears in exactly one row: none is missing and none is in two rows.
C1_EveryPairExactlyOnce ==
    all_scens.status = "ok" =>
        LET techs == MappedTechs
        IN  \A t \in techs, s \in Scenarios :
                Copies(all_scens.value,
                       LAMBDA x : x.message_technology = t /\ x.scenario = s) = 1

\* C1, side condition under which the code does keep the pairs unique: no
\* technology has two different first years across the first-year files.
FirstYearsAgree ==
    \A a, b \in DOMAIN df_first_year(config.module) :
        a.message_technology = b.message_technology => a = b

C1_ExactlyOnceWhenFirstYearsAgree ==
    (all_scens.status = "ok" /\ FirstYearsAgree) =>
        LET techs == MappedTechs
        IN  \A t \in techs, s \in Scenarios :
                Copies(all_scens.value,
                       LAMBDA x : x.message_technology = t /\ x.scenario = s) = 1

NoneTechs ==
    {x.message_technology : x \in {y \in DOMAIN get_cost_reduction_data(config.module) :
        y.reduction_rate = "none"}}

\* C3: a technology whose reduction category is "none" (cost_reduction 0) is
\* projected flat: in every one of its rows, for every scenario and every year of
\* seq_years, the projected cost equals its base-year reference-region cost.
C3_NoneCategoryIsFlat ==
    df_inv_ref.status = "ok" =>
        LET none == NoneTechs
        IN  \A x \in DOMAIN df_inv_ref.value :
                x.message_technology \in none =>
                    \A c0 \in RefCosts(x.message_technology) :
                        x.inv_cost_ref_region_decay = c0

\* C3 with the degenerate rate excluded
C3_FlatWhenRatePositive ==
    (df_inv_ref.status = "ok" /\ config.pre_last_year_rate # Num(0)) =>
        LET none == NoneTechs
        IN  \A x \in DOMAIN df_inv_ref.value :
                x.message_technology \in none =>
                    \A c0 \in RefCosts(x.message_technology) :
                        x.inv_cost_ref_region_decay = c0

\* C4: the decay curve evaluated at year 2100 equals the horizon cost C0 * (1 - r),
\* for every base year before 2100 and every pre_last_year_rate.
C4_HorizonCostReached ==
    df_inv_ref.status = "ok" =>
        LET joined == DOMAIN df_cost_reduction(all_rates.value, all_scens.value)
        IN  \A x \in DOMAIN df_inv_ref.value :
                x.year = 2100 =>
                    \E c \in joined, c0 \in RefCosts(x.message_technology) :
                        /\ c.message_technology = x.message_technology
                        /\ c.scenario = x.scenario
                        /\ c.first_technology_year = x.first_technology_year
                        /\ x.inv_cost_ref_region_decay
                             = FMul(c0, FSub(Num(1), c.cost_reduction))

\* the closed form of the decay curve as the specification states it
ClaimedCost(C0, reduction, rate, base_year, y) ==
    LET Ch == FMul(C0, FSub(Num(1), reduction))
        b == FMul(FSub(Num(1), rate), Ch)
        growth == ExpLogRate(FDiv(FSub(Ch, b), FSub(C0, b)), 2100 - base_year, y - base_year)
    IN  IF y <= base_year THEN C0 ELSE Affine(FSub(C0, b), growth, b)

\* C8: for a year y <= base_year the projected cost is C0 exactly; for y > base_year
\* it is (C0 - b) * exp(r * (y - base_year)) + b with b = (1 - pre_last_year_rate) * Ch,
\* Ch = C0 * (1 - cost_reduction), r = ln((Ch - b) / (C0 - b)) / (2100 - base_year).
C8_ProjectedCostFollowsCurve ==
    df_inv_ref.status = "ok" =>
        LET joined == DOMAIN df_cost_reduction(all_rates.value, all_scens.value)
            Claimed(c, c0, y) ==
                ClaimedCost(c0, c.cost_reduction, config.pre_last_year_rate,
                            config.base_year, y)
        IN  /\ \A x \in DOMAIN df_inv_ref.value :
                  \E c \in joined, c0 \in RefCosts(x.message_technology) :
                      /\ c.message_technology = x.message_technology
                      /\ c.scenario = x.scenario
                      /\ c.first_technology_year = x.first_technology_year
                      /\ x.inv_cost_ref_region_decay = Claimed(c, c0, x.year)
            /\ \A c \in joined, y \in SeqToSet(config.seq_years) :
                  \A c0 \in RefCosts(c.message_technology) :
                      \E x \in DOMAIN df_inv_ref.value :
                          /\ x.message_technology = c.message_technology
                          /\ x.scenario = c.scenario /\ x.year = y
                          /\ x.inv_cost_ref_region_decay = Claimed(c, c0, y)

\* C8 witness: a projection holding a base-year row at C0 and a later row on the
\* curve strictly between the horizon cost and C0
C8_Witness ==
    /\ df_inv_ref.status = "ok"
    /\ \E x, z \in DOMAIN df_inv_ref.value :
          /\ x.message_technology = z.message_technology /\ x.scenario = z.scenario
          /\ x.scenario \in Scenarios
          /\ x.year <= config.base_year /\ z.year > config.base_year /\ z.year < 2100
          /\ x.inv_cost_ref_region_decay \in RefCosts(x.message_technology)
          /\ IsIrr(z.inv_cost_ref_region_decay)
          /\ \E w \in DOMAIN df_inv_ref.value :
                /\ w.message_technology = x.message_technology /\ w.scenario = x.scenario
                /\ w.year = 2100
                /\ FGt(x.inv_cost_ref_region_decay, w.inv_cost_ref_region_decay)

\* C9: the projector's table has exactly one row per (technology, scenario, year)
\* for every year of seq_years: no year is missing for a (technology, scenario)
\* pair and no triple has two rows with different costs.
C9_OneRowPerTechScenarioYear ==
    df_inv_ref.status = "ok" =>
        \A x \in DOMAIN df_inv_ref.value :
            x.scenario \in Scenarios =>
                /\ \A y \in SeqToSet(config.seq_years) :
                      \E z \in DOMAIN df_inv_ref.value :
                          /\ z.message_technology = x.message_technology
                          /\ z.scenario = x.scenario /\ z.year = y
                /\ \A z \in DOMAIN df_inv_ref.value :
                      (/\ z.message_technology = x.message_technology
                       /\ z.scenario = x.scenario /\ z.year = x.year)
                      => z.inv_cost_ref_region_decay = x.inv_cost_ref_region_decay

\* C10: every row returned by the projector carries one of the six scenarios; the
\* join of cost reductions with scenario assignments leaves no scenario missing.
C10_ScenarioNeverMissing ==
    df_inv_ref.status = "ok" =>
        \A x \in DOMAIN df_inv_ref.value : x.scenario \in Scenarios


(***************************************************************************)
(* Properties of regional_differentiation.py, checked under SpecRegDiff    *)
(***************************************************************************)
RefRegion == Upper(config.ref_region)

RefRowsHaveRatioOne(T) ==
    \A x \in DOMAIN T : x.region = RefRegion => x.reg_cost_ratio = Num(1)

\* C2: for every technology and every source (WEO, Intratec, none) the row of the
\* reference region has reg_cost_ratio exactly 1, in the tables returned by
\* get_weo_regional_differentiation, get_intratec_regional_differentiation and
\* apply_regional_differentiation.
C2_ReferenceRegionRatioIsOne ==
    /\ df_weo.status = "ok" =>
          /\ RefRowsHaveRatioOne(df_weo.value)
          /\ \A t \in {c.weo_technology : c \in weo_xlsb} :
                \E x \in DOMAIN df_weo.value :
                    x.weo_technology = t /\ x.region = RefRegion
    /\ df_intratec.status = "ok" =>
          /\ RefRowsHaveRatioOne(df_intratec.value)
          /\ \E x \in DOMAIN df_intratec.value : x.region = RefRegion
    /\ all_tech.status = "ok" => RefRowsHaveRatioOne(all_tech.value)

\* a run in which all three tables hold reference-region rows, of all three
\* sources, next to rows of another region whose ratio is not 1
C2_Witness ==
    /\ df_weo.status = "ok" /\ df_intratec.status = "ok" /\ all_tech.status = "ok"
    /\ \E x, y \in DOMAIN df_weo.value :
          /\ x.region = RefRegion /\ x.reg_cost_ratio = Num(1)
          /\ y.weo_technology = x.weo_technology /\ y.reg_cost_ratio # Num(1)
    /\ \E x, y \in DOMAIN df_intratec.value :
          /\ x.region = RefRegion /\ x.reg_cost_ratio = Num(1)
          /\ y.reg_cost_ratio # Num(1)
    /\ \A src \in {"weo", "intratec", NA} :
          \E x \in DOMAIN all_tech.value :
              /\ x.reg_diff_source = src /\ x.region = RefRegion
              /\ x.reg_cost_ratio = Num(1)

\* the model regions the WEO data resolve to: nodes whose WEO region has data
ResolvedWeoRegions ==
    LET region_map == NodeCodelist(config.node)
    IN  {n \in DOMAIN region_map : \E c \in weo_xlsb : c.weo_region = region_map[n]}

\* the model regions the Intratec data resolve to, by the naming convention
ResolvedIntratecRegions ==
    LET names == {c.region : c \in {d \in intratec_xlsx : d.type = "Intratec index"}}
    IN  CASE config.node = "R11" ->
                {"R11_" \o (IF r = "CHN" THEN "CPA" ELSE r) : r \in names \ {"RCPA"}}
          [] config.node = "R12" -> {"R12_" \o r : r \in names}
          [] OTHER -> {}

\* the call raised ValueError naming the regions iff the reference region is not
\* among them, and returned a table otherwise
ValueErrorIffUnresolved(result, regions) ==
    IF RefRegion \in regions THEN result.status = "ok"
    ELSE result = RaisedNaming("ValueError", regions)

\* C5: both ratio functions raise a ValueError that names the available regions,
\* and return no table, whenever the upper-cased ref_region is not among the model
\* regions resolved from the source data; when it is among them, in any letter
\* case, they raise no such error.
C5_ValueErrorIffRefRegionUnresolved ==
    /\ df_weo # NotCalled => ValueErrorIffUnresolved(df_weo, ResolvedWeoRegions)
    /\ df_intratec # NotCalled =>
          ValueErrorIffUnresolved(df_intratec, ResolvedIntratecRegions)

\* C5 for the two node classifications that the Intratec naming convention covers
C5_ValueErrorWhenNodeIsR11OrR12 ==
    config.node \in {"R11", "R12"} => C5_ValueErrorIffRefRegionUnresolved

\* rows of the raw materials mapping without a base cost and without a source
\* that the adjustment can use
Insufficient ==
    {x \in csv.tech_map["materials"] :
        /\ IsNaN(x.base_year_reference_region_cost)
        /\ x.reg_diff_source # "energy"}

EnergyTechs == {x.message_technology : x \in csv.tech_map["energy"]}

NotProjected(t) ==
    /\ df_map.status = "ok"
    /\ \E m \in log : m.msg = "not projected due to insufficient data" /\ t \in m.names
    /\ \A x \in DOMAIN df_map.value : x.message_technology # t
    /\ all_tech # NotCalled =>
          /\ all_tech.status \in {"ok", "ValueError"}
          /\ \A x \in DOMAIN all_tech.value : x.message_technology # t

C7_OneRowPerTechnologyAndRegion ==
    df_weo.status = "ok" =>
        LET techs == {c.weo_technology : c \in weo_xlsb}
            regions == DOMAIN NodeCodelist(config.node)
        IN  /\ \A t \in techs, n \in regions :
                  Copies(df_weo.value,
                         LAMBDA x : x.weo_technology = t /\ x.region = n) = 1
            /\ \A x \in DOMAIN df_weo.value :
                  /\ x.weo_technology \in techs /\ x.region \in regions
                  /\ FGt(x.reg_cost_ratio, Num(0))

\* two model regions share one WEO region, and a missing cost was imputed
C7_Witness ==
    /\ df_weo.status = "ok"
    /\ config.node = "R12"
    /\ \E c \in weo_xlsb : c.year = "2021" /\ c.cost_type = "inv_cost" /\ IsText(c.value)
    /\ \E x, y \in DOMAIN df_weo.value :
          /\ x.weo_technology = y.weo_technology
          /\ x.region = "R12_CHN" /\ y.region = "R12_RCPA"
          /\ FGt(x.reg_cost_ratio, Num(0)) /\ x.reg_cost_ratio = y.reg_cost_ratio
    /\ \E z \in DOMAIN df_weo.value :
          FGt(z.reg_cost_ratio, Num(0)) /\ z.reg_cost_ratio # Num(1)

\* rows of the adjusted mapping that name no differentiation source
UnsourcedRows ==
    {m \in DOMAIN adjust_technology_mapping(config.module) : m.reg_diff_source = NA}

ModelRegions == DOMAIN NodeCodelist(config.node)

InOneRowPerRegionAtRatioOne(m) ==
    \A n \in ModelRegions :
        /\ Copies(all_tech.value,
                  LAMBDA x : x.message_technology = m.message_technology
                             /\ x.reg_diff_source = NA /\ x.region = n
                             /\ x.base_year_reference_region_cost
                                  = m.base_year_reference_region_cost) = 1
        /\ \A x \in DOMAIN all_tech.value :
              (x.message_technology = m.message_technology /\ x.reg_diff_source = NA
               /\ x.region = n)
                 => /\ x.reg_cost_ratio = Num(1)
                    /\ x.reg_cost_base_year = x.base_year_reference_region_cost

\* C11: in apply_regional_differentiation every technology whose reg_diff_source is
\* null gets one row for every model region, with reg_cost_ratio 1 and
\* reg_cost_base_year equal to its reference-region base cost, for every module and
\* also when no technology of the mapping uses the Intratec source.
C11_UnsourcedTechnologyInEveryRegion ==
    all_tech.status = "ok" =>
        LET rows == UnsourcedRows
        IN  \A m \in rows : InOneRowPerRegionAtRatioOne(m)

\* C11 for mappings in which some technology uses the Intratec source
C11_UnsourcedWhenIntratecIsUsed ==
    (all_tech.status = "ok"
     /\ \E m \in DOMAIN adjust_technology_mapping(config.module) :
            m.reg_diff_source = "intratec") =>
        LET rows == UnsourcedRows
        IN  \A m \in rows : InOneRowPerRegionAtRatioOne(m)

\* the cells of the workbook with a printed number, for one technology and cost type
PrintedCells(t, ct) ==
    {c \in weo_xlsb : c.weo_technology = t /\ c.cost_type = ct /\ ~IsText(c.value)}

\* m is the median of the values of the cells E: the middle value of an odd number
\* of cells, the mean of the two middle values of an even number
IsMedianOf(m, E) ==
    LET n == Cardinality(E)
        Below(v) == Cardinality({e \in E : FGt(v, e.value)})
        Above(v) == Cardinality({e \in E : FGt(e.value, v)})
        Middle(v, k) == Below(v) < k /\ Above(v) <= n - k
    IN  IF n % 2 = 1
        THEN \E e \in E : Middle(e.value, (n + 1) \div 2) /\ m = e.value
        ELSE \E a, b \in E :
                /\ Middle(a.value, n \div 2) /\ Middle(b.value, (n \div 2) + 1)
                /\ m = FDiv(FAdd(a.value, b.value), Num(2))

\* C12: get_weo_data replaces every missing cost by the median of the non-missing
\* values with the same (weo_technology, cost_type), and returns every non-missing
\* value unchanged apart from the fixed USD conversion factor.
C12_MissingCostsAreMedians ==
    df_merged.status = "ok" =>
        /\ \A c \in weo_xlsb :
              \E x \in DOMAIN df_merged.value :
                  /\ x.weo_technology = c.weo_technology /\ x.cost_type = c.cost_type
                  /\ x.weo_region = c.weo_region /\ x.year = c.year
                  /\ df_merged.value[x] = 1
                  /\ IF IsText(c.value)
                     THEN IsMedianOf(FDiv(x.value, CONVERSION_2021_TO_2005_USD),
                                     PrintedCells(c.weo_technology, c.cost_type))
                     ELSE x.value = FMul(c.value, CONVERSION_2021_TO_2005_USD)
        /\ \A x \in DOMAIN df_merged.value :
              \E c \in weo_xlsb :
                  /\ x.weo_technology = c.weo_technology /\ x.cost_type = c.cost_type
                  /\ x.weo_region = c.weo_region /\ x.year = c.year

\* a workbook with a missing cost whose imputed value no region printed that year
C12_Witness ==
    /\ df_merged.status = "ok"
    /\ \E c \in weo_xlsb, x \in DOMAIN df_merged.value :
          /\ IsText(c.value)
          /\ x.weo_technology = c.weo_technology /\ x.cost_type = c.cost_type
          /\ x.weo_region = c.weo_region /\ x.year = c.year
          /\ IsRat(x.value)
          /\ \A d \in PrintedCells(c.weo_technology, c.cost_type) :
                d.year = c.year => x.value # FMul(d.value, CONVERSION_2021_TO_2005_USD)
    /\ \E c \in weo_xlsb, x \in DOMAIN df_merged.value :
          /\ ~IsText(c.value)
          /\ x.weo_technology = c.weo_technology /\ x.cost_type = c.cost_type
          /\ x.weo_region = c.weo_region /\ x.year = c.year
          /\ x.value = FMul(c.value, CONVERSION_2021_TO_2005_USD) /\ x.value # c.value

DataYears == {c.year : c \in weo_xlsb}

\* the rows of the workbook for the year that get_weo_regional_differentiation logs
SelectedYearRows == {c \in weo_xlsb : c.year = sel_year}

UsesNearestYear ==
    \E m \in log :
        /\ m.msg = "using year"
        /\ \E y \in DataYears :
              /\ m.names = {y}
              /\ \A z \in DataYears :
                    Abs(IntOfYear(y) - BASE_YEAR) <= Abs(IntOfYear(z) - BASE_YEAR)

\* C13: get_weo_regional_differentiation uses the data of exactly one WEO year, a
\* year of the data nearest to BASE_YEAR; no row of another year contributes to
\* reg_cost_ratio or weo_fix_ratio: the table is the one obtained from the rows of
\* that year alone.
C13_OnlyTheNearestYearContributes ==
    df_weo # NotCalled =>
        /\ UsesNearestYear
        /\ df_weo = weo_regional_differentiation(SelectedYearRows, config.node,
                                                 config.ref_region)

\* C13 for workbooks in which every cost of the selected year is printed
C13_NearestYearWhenItsCostsArePrinted ==
    (df_weo # NotCalled /\ \A c \in SelectedYearRows : ~IsText(c.value)) =>
        /\ UsesNearestYear
        /\ df_weo = weo_regional_differentiation(SelectedYearRows, config.node,
                                                 config.ref_region)

\* the original first years that the first-year files give for technology t
OriginalFirstYears(t) ==
    LET files == IF config.module = "energy" THEN csv.first_year["energy"]
                 ELSE csv.first_year["energy"] \cup csv.first_year[config.module]
    IN  {r.first_year_original : r \in {f \in files : f.message_technology = t}}

ClaimedFirstYear(orig, first_year) ==
    IF IsNaN(orig) \/ orig[1] <= first_year * orig[2] THEN Num(first_year) ELSE orig

FirstYearsOf(T, t) ==
    {x.first_technology_year : x \in {y \in DOMAIN T : y.message_technology = t}}

\* C14: in the table of get_technology_reduction_scenarios_data the
\* first_technology_year of a technology is first_year when its original first
\* year is missing or earlier than first_year, and is the original first year
\* when that is later than first_year.
C14_FirstYearIsNeverBeforeFirstYear ==
    all_scens # NotCalled =>
        LET T == all_scens.value
        IN  \A t \in {x.message_technology : x \in DOMAIN T} :
                FirstYearsOf(T, t) =
                    IF OriginalFirstYears(t) = {} THEN {Num(config.y0)}
                    ELSE {ClaimedFirstYear(o, config.y0) : o \in OriginalFirstYears(t)}

C14_Witness ==
    /\ all_scens # NotCalled
    /\ LET T == all_scens.value
       IN  /\ \E x \in DOMAIN T :
                 /\ OriginalFirstYears(x.message_technology) = {Num(2010)}
                 /\ x.first_technology_year = Num(config.y0)
           /\ \E x \in DOMAIN T :
                 /\ OriginalFirstYears(x.message_technology) = {Num(2040)}
                 /\ x.first_technology_year = Num(2040)
           /\ \E x \in DOMAIN T :
                 /\ OriginalFirstYears(x.message_technology) \in {{}, {NaN}}
                 /\ x.first_technology_year = Num(config.y0)

\* the technologies whose scenarios the mapping makes technology t follow
ScenarioTechnologies(t) ==
    {IF x.reg_diff_source = "energy" THEN x.reg_diff_technology ELSE x.message_technology :
        x \in {y \in DOMAIN merged_tech_map(config.module) : y.message_technology = t}}

HasScenarioData(t) ==
    \E r \in csv.scenarios_reduction : r.message_technology \in ScenarioTechnologies(t)

NoneFillerOnly(T, t) ==
    /\ Copies(T, LAMBDA x : x.message_technology = t) = 6
    /\ \A s \in Scenarios :
          Copies(T, LAMBDA x : x.message_technology = t /\ x.scenario = s
                               /\ x.reduction_rate = "none") = 1

ScenarioFillers ==
    LET T == all_scens.value
    IN  \A t \in MappedTechs :
            IF HasScenarioData(t)
            THEN Copies(T, LAMBDA x : x.message_technology = t
                                      /\ x.reduction_rate = "none") = 0
            ELSE NoneFillerOnly(T, t)

\* C15: a technology of the mapping whose scenario technology has no row in the
\* scenario-reduction table receives exactly six rows, one for each of SSP1..SSP5
\* and LED, all with reduction_rate "none"; a technology that has scenario-specific
\* data receives no "none" filler row.
C15_SixNoneRowsWithoutScenarioData ==
    all_scens # NotCalled => ScenarioFillers

\* C15 when no technology has two different first years across the first-year files
C15_SixNoneRowsWhenFirstYearsAgree ==
    (all_scens # NotCalled /\ FirstYearsAgree) => ScenarioFillers

MaterialsRowsOf(t) == {m \in csv.tech_map["materials"] : m.message_technology = t}
EnergyRowsOf(t) == {e \in csv.tech_map["energy"] : e.message_technology = t}

\* the cost that C16 states for a row of technology x.message_technology, the
\* materials cost being taken as Supplied(cost)
HasClaimedCost(x, Supplied(_)) ==
    \A m \in MaterialsRowsOf(x.message_technology) :
        IF ~IsNaN(m.base_year_reference_region_cost)
        THEN x.base_year_reference_region_cost = Supplied(m.base_year_reference_region_cost)
        ELSE m.reg_diff_source = "energy" =>
                \E e \in EnergyRowsOf(m.reg_diff_technology) :
                    x.base_year_reference_region_cost = e.base_year_reference_region_cost

AsSupplied(cost) == cost

\* C16: for module "materials" adjust_technology_mapping gives each technology the
\* base-year reference-region cost supplied by the materials mapping when that is
\* present, and otherwise, when the materials source is "energy", the cost of the
\* energy technology named by reg_diff_technology; for module "energy" the raw
\* energy mapping is returned unchanged.
C16_MaterialsCostElseEnergyAnalogue ==
    df_map # NotCalled =>
        IF config.module = "energy"
        THEN df_map = Returned(ReadCsv(csv.tech_map["energy"]))
        ELSE \A x \in DOMAIN df_map.value : HasClaimedCost(x, AsSupplied)

\* C16 with the supplied cost rounded to an integer, for the technologies that
\* the energy mapping does not list
C16_RoundedCostForMaterialsOnlyTechnologies ==
    df_map # NotCalled =>
        IF config.module = "energy"
        THEN df_map = Returned(ReadCsv(csv.tech_map["energy"]))
        ELSE \A x \in DOMAIN df_map.value :
                EnergyRowsOf(x.message_technology) = {} => HasClaimedCost(x, FRound)

\* C16 with the supplied cost rounded, for every technology
C16_RoundedCost ==
    (df_map # NotCalled /\ config.module = "materials") =>
        \A x \in DOMAIN df_map.value : HasClaimedCost(x, FRound)

(***************************************************************************)
(* Properties of the cached region map, checked under SpecRegionMap        *)
(***************************************************************************)
CachedResults(r) ==
    {region_map_cache[i].result :
        i \in {j \in DOMAIN region_map_cache : region_map_cache[j].key = r}}

LoadedAtMostOnce == \A r \in Nodes : codelist_loads[r] <= 1

ReturnsTheMapping ==
    weo_region_map.regions \in Nodes =>
        weo_region_map.result = NodeCodelist(weo_region_map.regions)

\* a classification that was loaded stays cached with its mapping and is not
\* loaded again
LoadedStaysCached ==
    \A r \in Nodes :
        codelist_loads[r] >= 1 =>
            /\ codelist_loads'[r] = codelist_loads[r]
            /\ CachedResults(r)' = {NodeCodelist(r)}

\* C17: within one process, for any sequence of calls, the region mapping of a
\* node classification is computed at most once: the first call of
\* get_weo_region_map(regions) loads the codelist, every later call with the same
\* argument returns the same mapping without loading it again, and the cache is
\* never invalidated.
C17_RegionMapComputedAtMostOnce ==
    /\ [](LoadedAtMostOnce /\ ReturnsTheMapping)
    /\ [][LoadedStaysCached]_vars

C17_Witness ==
    /\ \A r \in Nodes : codelist_loads[r] = 1
    /\ cache_info.hits >= 2
    /\ df_weo # NotCalled
    /\ weo_region_map.regions = "R12"
    /\ weo_region_map.result = NodeCodelist("R12")

(***************************************************************************)
(* Frame of the stages, checked under SpecPipeline                         *)
(***************************************************************************)
CacheEntriesKept ==
    \A i \in DOMAIN region_map_cache :
        \E j \in DOMAIN region_map_cache' : region_map_cache'[j] = region_map_cache[i]

\* C18: no stage mutates a table it receives: across any sequence of calls of
\* subset_materials_map, adjust_technology_mapping, apply_regional_differentiation
\* and project_ref_region_inv_costs_using_reduction_rates the tables passed in
\* (raw_map, regional_diff_df) and the cached region map hold the same rows and
\* columns as before the call.
C18_StagesLeaveTheirInputs ==
    [][/\ raw_map_materials' = raw_map_materials
       /\ regional_diff_df' = regional_diff_df
       /\ CacheEntriesKept]_vars

C18_Witness ==
    /\ sub_map.status = "ok" /\ sub_map.value # raw_map_materials
    /\ df_map.status = "ok"
    /\ all_tech.status = "ok"
    /\ df_inv_ref.status = "ok" /\ df_inv_ref.value # EmptyBag
    /\ cache_info.hits >= 1
    /\ \E x \in DOMAIN raw_map_materials : x.base_year_reference_region_cost = Rat(5, 2)

\* the rows of the mapping files that supply the optional fields of technology t
SuppliedRows(t) ==
    IF config.module = "materials" /\ MaterialsRowsOf(t) # {}
    THEN MaterialsRowsOf(t) ELSE EnergyRowsOf(t)

WeoSourced(x) == x.reg_diff_source \in {"weo", "energy"}

\* row x carries the fallback cost: the reference-region cost of its source
HasSourceCost(x, weo, intratec) ==
    IF WeoSourced(x)
    THEN \E w \in DOMAIN weo :
            /\ w.weo_technology = x.reg_diff_technology /\ w.region = x.region
            /\ x.base_year_reference_region_cost = w.weo_ref_region_cost
    ELSE x.reg_diff_source = "intratec" =>
            \E i \in DOMAIN intratec :
                /\ i.region = x.region
                /\ x.base_year_reference_region_cost = i.intratec_ref_region_cost

\* row x carries the fallback fix ratio: that of WEO, or 0
HasFallbackFixRatio(x, weo) ==
    IF WeoSourced(x)
    THEN \E w \in DOMAIN weo :
            /\ w.weo_technology = x.reg_diff_technology /\ w.region = x.region
            /\ x.fix_ratio = w.weo_fix_ratio
    ELSE x.fix_ratio = Num(0)

\* row x of the result has its optional fields as row m supplies them, a supplied
\* cost possibly rounded
FilledFrom(x, m, weo, intratec) ==
    /\ IF IsNaN(m.base_year_reference_region_cost)
       THEN HasSourceCost(x, weo, intratec)
       ELSE x.base_year_reference_region_cost \in
                {m.base_year_reference_region_cost, FRound(m.base_year_reference_region_cost)}
    /\ IF IsNaN(m.fix_ratio)
       THEN HasFallbackFixRatio(x, weo)
       ELSE x.fix_ratio = m.fix_ratio

\* apply_regional_differentiation fails only where one of the two ratio tables fails
FailsOnlyWithItsSources(weo, intratec) ==
    all_tech.status # "ok" => (weo.status # "ok" \/ intratec.status # "ok")

\* C19: a missing optional field never makes apply_regional_differentiation fail:
\* a missing base-year reference-region cost is filled with the source's
\* reference-region cost (WEO or Intratec), a missing fix_ratio with the WEO fix
\* ratio for WEO/energy-sourced technologies and with 0 for Intratec-sourced and
\* unsourced ones; a supplied value is never overwritten by the fallback.
C19_MissingFieldsAreFilled ==
    all_tech # NotCalled =>
        LET weo == get_weo_regional_differentiation(config.node, config.ref_region)
            intratec == get_intratec_regional_differentiation(config.node, config.ref_region)
        IN  /\ FailsOnlyWithItsSources(weo, intratec)
            /\ all_tech.status = "ok" =>
                  \A x \in DOMAIN all_tech.value :
                      \A m \in SuppliedRows(x.message_technology) :
                          FilledFrom(x, m, weo.value, intratec.value)

\* C19 for module "energy", where the mapping reaches the fills with all its columns
C19_FilledInTheEnergyModule ==
    (all_tech # NotCalled /\ config.module = "energy") =>
        LET weo == get_weo_regional_differentiation(config.node, config.ref_region)
            intratec == get_intratec_regional_differentiation(config.node, config.ref_region)
        IN  /\ FailsOnlyWithItsSources(weo, intratec)
            /\ all_tech.status = "ok" =>
                  \A x \in DOMAIN all_tech.value :
                      \A m \in SuppliedRows(x.message_technology) :
                          FilledFrom(x, m, weo.value, intratec.value)

\* C19 with respect to the adjusted mapping: the fills keep every value that
\* adjust_technology_mapping hands over
C19_FilledFromTheAdjustedMapping ==
    all_tech.status = "ok" =>
        LET weo == get_weo_regional_differentiation(config.node, config.ref_region)
            intratec == get_intratec_regional_differentiation(config.node, config.ref_region)
            map == adjust_technology_mapping(config.module)
        IN  \A x \in DOMAIN all_tech.value :
                \E m \in DOMAIN map :
                    /\ m.message_technology = x.message_technology
                    /\ m.reg_diff_technology = x.reg_diff_technology
                    /\ FilledFrom(x, m, weo.value, intratec.value)

(***************************************************************************)
(* Independence of the projection from seq_years, checked under SpecCosts  *)
(***************************************************************************)
\* the sequences of years another configuration may carry
OtherYearSequences ==
    {YearSeq(first, last) : first \in 1..2, last \in (NumPeriods - 1)..NumPeriods}

AtYears(T, years) == BagOfTagged({<<x, x, T[x]>> : x \in {y \in DOMAIN T : y.year \in years}})

\* C20: the horizon year of the decay curve is the constant 2100 regardless of
\* the configuration: two configurations that differ only in seq_years give the
\* same projected cost for every (technology, scenario) at every year present in
\* both sequences.
C20_CostsIndependentOfSeqYears ==
    df_inv_ref.status = "ok" =>
        \A years \in OtherYearSequences \ {config.seq_years} :
            LET other == project_ref_region_inv_costs_using_reduction_rates(
                             regional_diff_df, [config EXCEPT !.seq_years = years],
                             all_rates.value, all_scens.value)
                common == SeqToSet(years) \cap SeqToSet(config.seq_years)
            IN  AtYears(other, common) = AtYears(df_inv_ref.value, common)

C20_Witness ==
    /\ df_inv_ref.status = "ok"
    /\ Len(config.seq_years) < NumPeriods
    /\ \E x \in DOMAIN df_inv_ref.value :
          /\ x.year > config.base_year /\ x.year < HorizonYear
          /\ IsRat(x.inv_cost_ref_region_decay)
          /\ \E c \in RefCosts(x.message_technology) :
                FGt(c, x.inv_cost_ref_region_decay)

(***************************************************************************)
(* Properties of get_cost_reduction_data, checked under SpecCosts          *)
(***************************************************************************)
\* the rows that cost_reduction.csv gives technology t under the name as
ListedRates(as, t) ==
    {[message_technology |-> as, reduction_rate |-> c,
      cost_reduction |-> IF IsNaN(r.rates[c]) THEN Num(0) ELSE r.rates[c]] :
        r \in {q \in csv.cost_reduction : q.message_technology = t}, c \in Rates}

\* the energy technologies that the mapping names as analogue of t
EnergyAnalogues(t) ==
    {x.reg_diff_technology :
        x \in {y \in DOMAIN merged_tech_map(config.module) :
                  y.message_technology = t /\ y.reg_diff_source = "energy"}}

AnalogueRates(t) == UNION {ListedRates(t, a) : a \in EnergyAnalogues(t)}

RatesOf(T, t) == {x \in DOMAIN T : x.message_technology = t}

\* C21: get_cost_reduction_data returns at least one row for every technology of
\* the merged mapping: a technology listed in the energy cost-reduction table
\* gets that table's rates, a module technology with reg_diff_source "energy"
\* gets the rates of the energy technology named by reg_diff_technology, and
\* every remaining technology gets a single row with reduction_rate "none" and
\* cost_reduction 0.
C21_EveryTechnologyHasRates ==
    all_rates # NotCalled =>
        LET T == all_rates.value
        IN  \A t \in MappedTechs :
                /\ RatesOf(T, t) # {}
                /\ ListedRates(t, t) \subseteq RatesOf(T, t)
                /\ AnalogueRates(t) \subseteq RatesOf(T, t)
                /\ IF ListedRates(t, t) \cup AnalogueRates(t) = {}
                   THEN /\ RatesOf(T, t) = {[message_technology |-> t,
                                             reduction_rate |-> "none",
                                             cost_reduction |-> Num(0)]}
                        /\ Copies(T, LAMBDA x : x.message_technology = t) = 1
                   ELSE RatesOf(T, t) = ListedRates(t, t) \cup AnalogueRates(t)

C21_Witness ==
    /\ all_rates # NotCalled
    /\ config.module = "materials"
    /\ ListedRates("gas_ppl", "gas_ppl") # {}
    /\ EnergyAnalogues("furnace") = {"gas_ppl"}
    /\ AnalogueRates("furnace") \subseteq DOMAIN all_rates.value
    /\ ListedRates("coal_ppl", "coal_ppl") \subseteq DOMAIN all_rates.value

\* a technology mapped to an analogue that the cost-reduction table does not list
C21_WitnessUnlistedAnalogue ==
    /\ all_rates # NotCalled
    /\ EnergyAnalogues("furnace") = {"gas_ppl"}
    /\ ListedRates("gas_ppl", "gas_ppl") = {}
    /\ \E x \in DOMAIN all_rates.value :
          x.message_technology = "furnace" /\ x.reduction_rate = "none"

(***************************************************************************)
(* Properties of the SHAPE data source, checked under SpecShape            *)
(***************************************************************************)
ValidMeasures == {"gdp", "gini", "population", "urbanisation"}

\* the file name that the claim states for measure m and a version string v
ClaimedFileName(m, v) ==
    [measure |-> m,
     version |-> ReplaceDots(IF v = "latest"
                             THEN CASE m = "gdp" -> "1.2" [] m = "gini" -> "1.1"
                                    [] m = "population" -> "1.2" [] OTHER -> "1.0"
                             ELSE v),
     suffix |-> IF m \in {"gdp", "population"} THEN ".mif" ELSE ".csv"]

\* C22: constructing the SHAPE data source raises ValueError when source is not
\* "SHAPE" or when measure is not one of gdp, gini, population, urbanisation
\* (also when it is omitted), and then no file path is resolved; with a valid
\* measure, version "latest" is replaced by that measure's latest version before
\* the file path is built.
C22_InvalidSourceOrMeasureIsValueError ==
    [][LET measure == PopValue(source_kw, "measure", None)
           version == PopValue(source_kw, "version", "latest")
       IN  /\ (source # "SHAPE" \/ measure \notin ValidMeasures) =>
                 /\ shape'.status = "ValueError"
                 /\ path_fallback_calls' = {}
           /\ path_fallback_calls' \subseteq {ClaimedFileName(measure, version)}
           /\ shape'.status = "ok" =>
                 /\ path_fallback_calls' = {ClaimedFileName(measure, version)}
                 /\ shape'.path.name = ClaimedFileName(measure, version)]_vars

C22_Witness ==
    /\ shape.status = "ok"
    /\ \E name \in path_fallback_calls :
          name = [measure |-> "gini", version |-> "1p1", suffix |-> ".csv"]
    /\ source_kw = <<>>

(***************************************************************************)
(* Properties of model/material, checked under SpecMaterial                *)
(***************************************************************************)
\* C23: when the base scenario name is not one of the four names of the lookup
\* table of the solve command, determining the output scenario name raises an
\* error, so no scenario is cloned, built or solved.
C23_UnrecognizedNameRunsNothing ==
    scenario_info.scenario \notin DOMAIN OutputScenarioNames => platform = <<>>

\* C23, for the four names of the table: the clone carries the mapped name
C23_RecognizedNameIsMapped ==
    (scenario_info.scenario \in DOMAIN OutputScenarioNames /\ platform # <<>>)
        => /\ platform[1].op = "clone"
           /\ platform[1].scenario = OutputScenarioNames[scenario_info.scenario]

\* C26: read_config is idempotent on the context. The file is loaded by the
\* first call only; every later call returns the context as it was, without
\* loading; and after every call context["material"] is the very object that
\* context["material set"] is.
C26_ReadConfigIsIdempotent ==
    [][material_calls' # material_calls =>
          /\ material_loads' = (IF material_calls = 0 THEN 1 ELSE material_loads)
          /\ material_calls > 0 => context' = context
          /\ context'["material"].id = context'["material set"].id
          /\ context'["material"] = context'["material set"]]_vars

C26_Witness ==
    /\ material_calls >= 3
    /\ material_loads = 1
    /\ context["material"].id = context["material set"].id
    /\ material_spec.status = "ok"

(***************************************************************************)
(* Properties of model/transport/report.py, checked under SpecTransport    *)
(***************************************************************************)
\* the keys the callback adds that its docstring lists above "transport all"
ListedAbove == {"in::transport", "out::transport", "transport plots"}

\* C24: after callback(rep) returns, the reporter holds the keys "transport
\* plots" and "transport all", and "transport all" collects all the other keys
\* the callback adds: the aggregated in::transport and out::transport and
\* "transport plots".
C24_TransportAllCollectsTheOthers ==
    callback_result = "Returned"
        => /\ {"transport plots", "transport all"} \subseteq DOMAIN rep.graph
           /\ ListedAbove \cap DOMAIN rep.graph \subseteq rep.graph["transport all"]

\* C24, the part that holds: both keys are there, and "transport all" collects
\* "transport plots"
C24_BothKeysAdded ==
    callback_result = "Returned"
        => /\ {"transport plots", "transport all"} \subseteq DOMAIN rep.graph
           /\ rep.graph["transport all"] = {"transport plots"}

\* a failure to resolve "in" or "out", or to add a plot task
SomethingFailed ==
    \/ ~ ({"in", "out"} \subseteq DOMAIN rep.graph)
    \/ plot_failures # {}

\* C25: a failure to resolve the "in" or "out" key, or to add a plot task,
\* propagates out of the callback exactly when the scenario of the reporter has
\* a solution. Without a solution, or without a "scenario" entry, the failure
\* is swallowed and the callback completes, having added the stock keys,
\* "transport check" and "transport plots".
C25_FailuresPropagateOnlyWithSolution ==
    callback_result # "NotCalled"
        => /\ callback_result = "Raised"
                <=> (SomethingFailed /\ "scenario" \in DOMAIN rep.graph /\ has_solution)
           /\ callback_result = "Returned"
                => StockKeys \cup {"transport check", "transport plots"}
                       \subseteq DOMAIN rep.graph

C25_Witness ==
    /\ callback_result = "Returned"
    /\ "in" \notin DOMAIN rep.graph
    /\ plot_failures # {}
    /\ "scenario" \in DOMAIN rep.graph /\ ~has_solution
    /\ "out::transport" \in DOMAIN rep.graph
    /\ rep.graph["transport plots"] = {PlotKey(p) : p \in PLOTS \ plot_failures}

C25_WitnessRaised ==
    /\ callback_result = "Raised"
    /\ has_solution
    /\ plot_failures # {}
    /\ {"in", "out"} \subseteq DOMAIN rep.graph

\* C27: in the table returned by get_cost_reduction_data each pair
\* (message_technology, reduction_rate) carries at most one cost_reduction value,
\* also for a module technology that is mapped to an energy analogue and is
\* itself listed in the energy cost-reduction table.
C27_OneCostReductionPerTechAndRate ==
    all_rates.status = "ok" =>
        \A x, y \in DOMAIN all_rates.value :
            (x.message_technology = y.message_technology
             /\ x.reduction_rate = y.reduction_rate)
                => x.cost_reduction = y.cost_reduction

\* C27 for the technologies that are not both listed and mapped to an analogue
C27_OneValueUnlessListedAndMapped ==
    all_rates.status = "ok" =>
        \A x, y \in DOMAIN all_rates.value :
            (x.message_technology = y.message_technology
             /\ x.reduction_rate = y.reduction_rate
             /\ (ListedRates(x.message_technology, x.message_technology) = {}
                 \/ AnalogueRates(x.message_technology) = {}))
                => x.cost_reduction = y.cost_reduction

\* n1/d1 > n2/d2 for naturals, by continued fractions (no products)
RECURSIVE FracGt(_, _, _, _)
FracGt(n1, d1, n2, d2) ==
    IF n1 \div d1 # n2 \div d2 THEN n1 \div d1 > n2 \div d2
    ELSE IF n1 % d1 = 0 THEN FALSE
    ELSE IF n2 % d2 = 0 THEN TRUE
    ELSE FracGt(d2, n2 % d2, d1, n1 % d1)

\* the k in 0..3 with c = q^k, or -1
PowerOf(q, c) ==
    IF \E k \in 0..3 : c = Rat(IntPow(q[1], k), IntPow(q[2], k))
    THEN CHOOSE k \in 0..3 : c = Rat(IntPow(q[1], k), IntPow(q[2], k))
    ELSE -1

\* q^(tn/td) > c and q^(tn/td) < c, for rationals q > 0, q # 1, and c
PowGt(q, tn, td, c) ==
    IF c[1] <= 0 THEN TRUE
    ELSE IF PowerOf(q, c) >= 0
         THEN tn # PowerOf(q, c) * td /\ ((q[1] < q[2]) = (tn < PowerOf(q, c) * td))
    ELSE IntPow(q[1], tn) * IntPow(c[2], td) > IntPow(c[1], td) * IntPow(q[2], tn)

PowLt(q, tn, td, c) ==
    IF c[1] <= 0 THEN FALSE
    ELSE IF PowerOf(q, c) >= 0
         THEN tn # PowerOf(q, c) * td /\ ((q[1] < q[2]) = (tn > PowerOf(q, c) * td))
    ELSE IntPow(q[1], tn) * IntPow(c[2], td) < IntPow(c[1], td) * IntPow(q[2], tn)

\* u > v for costs that are rationals or symbolic a * q^(tn/td) + b; two symbolic
\* costs are compared only when they lie on one curve (same a, q and b)
CostGt(u, v) ==
    IF ~IsIrr(u) /\ ~IsIrr(v)
    THEN (IF IsRat(u) /\ IsRat(v) /\ u[1] >= 0 /\ v[1] >= 0
          THEN FracGt(u[1], u[2], v[1], v[2])
          ELSE FGt(u, v))
    ELSE IF IsIrr(u) /\ ~IsIrr(v)
         THEN IsRat(v) /\
              LET c == FDiv(FSub(v, <<u[7], u[8]>>), <<u[1], u[2]>>)
              IN  IF u[1] > 0 THEN PowGt(<<u[3], u[4]>>, u[5], u[6], c)
                  ELSE PowLt(<<u[3], u[4]>>, u[5], u[6], c)
    ELSE IF ~IsIrr(u)
         THEN IsRat(u) /\
              LET c == FDiv(FSub(u, <<v[7], v[8]>>), <<v[1], v[2]>>)
              IN  IF v[1] > 0 THEN PowLt(<<v[3], v[4]>>, v[5], v[6], c)
                  ELSE PowGt(<<v[3], v[4]>>, v[5], v[6], c)
    ELSE /\ <<u[1], u[2], u[3], u[4], u[7], u[8]>> = <<v[1], v[2], v[3], v[4], v[7], v[8]>>
         /\ ((u[1] > 0) = (u[3] < u[4])) = (u[5] * v[6] < v[5] * u[6])
         /\ u[5] * v[6] # v[5] * u[6]

CostGe(u, v) == u = v \/ CostGt(u, v)

\* the rows of the projector's wide table to which C28 applies
DecayingRows ==
    {x \in DOMAIN df_ref(regional_diff_df, config, all_rates.value, all_scens.value) :
        /\ FGt(x.reg_cost_base_year, Num(0))
        /\ FGt(x.cost_reduction, Num(0)) /\ FGt(Num(1), x.cost_reduction)
        /\ FGt(config.pre_last_year_rate, Num(0))
        /\ FGt(Num(1), config.pre_last_year_rate)}

\* C28: for a technology with C0 > 0, 0 < cost_reduction < 1 and
\* 0 < pre_last_year_rate < 1, the projected cost is non-increasing along the
\* years of seq_years, lies between C0 * (1 - cost_reduction) and C0 for every
\* year from base_year through 2100, and is strictly above
\* b = (1 - pre_last_year_rate) * C0 * (1 - cost_reduction) for every year,
\* including the years after 2100.
C28_CurveDecaysWithinBounds ==
    df_inv_ref.status = "ok" =>
        \A x \in DecayingRows :
            LET C0 == x.reg_cost_base_year
                Ch == FMul(C0, FSub(Num(1), x.cost_reduction))
                b == FMul(FSub(Num(1), config.pre_last_year_rate), Ch)
            IN  \A y \in DOMAIN x.years :
                    /\ \E z \in DOMAIN df_inv_ref.value :
                          /\ z.message_technology = x.message_technology
                          /\ z.scenario = x.scenario /\ z.year = y
                          /\ z.inv_cost_ref_region_decay = x.years[y]
                    /\ \A y2 \in DOMAIN x.years :
                          y < y2 => CostGe(x.years[y], x.years[y2])
                    /\ (config.base_year <= y /\ y <= 2100)
                          => CostGe(x.years[y], Ch) /\ CostGe(C0, x.years[y])
                    /\ CostGt(x.years[y], b)

\* a decaying curve with a year before the horizon, the horizon and a year after
\* it: the three costs are strictly ordered and the last is below the horizon cost
C28_Witness ==
    /\ df_inv_ref.status = "ok"
    /\ \E x \in DecayingRows :
          /\ {2060, 2100, 2140} \subseteq DOMAIN x.years
          /\ config.base_year = 2020
          /\ IsIrr(x.years[2060]) /\ IsIrr(x.years[2140])
          /\ CostGt(x.years[2060], x.years[2100])
          /\ CostGt(x.years[2100], x.years[2140])
          /\ CostGt(x.years[2140], x.b)

\* C29: for every node get_intratec_regional_differentiation either returns a
\* ratio table or raises the ValueError about the reference region, and never
\* fails with another error; the regions of a returned table are the resolved
\* model regions: the Intratec regions prefixed "R11_" with CHN renamed to CPA
\* and RCPA removed for node R11, prefixed "R12_" for node R12.
C29_TableOrValueErrorForEveryNode ==
    df_intratec # NotCalled =>
        /\ df_intratec.status \in {"ok", "ValueError"}
        /\ df_intratec.status = "ok" =>
              {x.region : x \in DOMAIN df_intratec.value} \subseteq ResolvedIntratecRegions

\* C29 for the nodes R11 and R12
C29_TableOrValueErrorForR11AndR12 ==
    config.node \in {"R11", "R12"} => C29_TableOrValueErrorForEveryNode

\* C30: in every row returned by apply_regional_differentiation
\* reg_cost_base_year is base_year_reference_region_cost * reg_cost_ratio, the
\* region is not missing, and in the reference region reg_cost_base_year equals
\* the base-year reference-region cost; a mapped technology whose source
\* technology is absent from the source data yields no row with a missing region
\* or ratio.
C30_EveryRowHasRegionAndCost ==
    all_tech.status = "ok" =>
        \A x \in DOMAIN all_tech.value :
            /\ x.reg_cost_base_year
                  = FMul(x.base_year_reference_region_cost, x.reg_cost_ratio)
            /\ x.region # NA
            /\ ~IsNaN(x.reg_cost_ratio)
            /\ x.region = RefRegion
                  => x.reg_cost_base_year = x.base_year_reference_region_cost

\* C30 for the rows that carry a region
C30_RowsWithRegion ==
    all_tech.status = "ok" =>
        \A x \in DOMAIN all_tech.value :
            x.region # NA =>
                /\ x.reg_cost_base_year
                      = FMul(x.base_year_reference_region_cost, x.reg_cost_ratio)
                /\ ~IsNaN(x.reg_cost_ratio)
                /\ x.region = RefRegion
                      => x.reg_cost_base_year = x.base_year_reference_region_cost

\* the technologies of the adjusted mapping whose source technology has no data
\* in the source they name
WithoutSourceData ==
    {m \in DOMAIN adjust_technology_mapping(config.module) :
        \/ /\ m.reg_diff_source \in {"weo", "energy"}
           /\ m.reg_diff_technology \notin {c.weo_technology : c \in weo_xlsb}
        \/ /\ m.reg_diff_source = "intratec"
           /\ m.reg_diff_technology \notin {c.intratec_tech : c \in DOMAIN get_intratec_data}}

\* C30, last part alone: such a technology has no row with a missing region
C30_NoRowForMissingSourceData ==
    all_tech.status = "ok" =>
        \A m \in WithoutSourceData :
            \A x \in DOMAIN all_tech.value :
                x.message_technology = m.message_technology => x.region # NA

====
